---- MODULE Spec2Model ----
(***************************************************************************)
(* Model of the report generation pipeline (src/src/generation/pipeline.py)*)
(* and of the storage operations it calls (src/src/workspace).             *)
(*                                                                         *)
(* Subsection ids are UUID strings in the program; the model uses small    *)
(* integers, ordered by < the way Python orders the strings.  Section ids  *)
(* are strings.                                                            *)
(***************************************************************************)
EXTENDS Integers, Sequences, FiniteSets, TLC

(***************************************************************************)
(* Generic helpers on sequences.                                           *)
(***************************************************************************)
Range(s) == {s[i] : i \in 1..Len(s)}

NoDuplicates(s) == \A i, j \in 1..Len(s) : i # j => s[i] # s[j]

IndexOf(s, x) == CHOOSE i \in 1..Len(s) : s[i] = x

IsPrefix(s, t) == Len(s) <= Len(t) /\ \A i \in 1..Len(s) : s[i] = t[i]

SetToSeqAny(S) == CHOOSE s \in [1..Cardinality(S) -> S] : Range(s) = S

RECURSIVE Concat(_)
Concat(ss) == IF ss = <<>> THEN <<>> ELSE Head(ss) \o Concat(Tail(ss))

(***************************************************************************)
(* _topological_order_subsection_ids and its helpers.                      *)
(***************************************************************************)
UnknownPosition == 10000000

NoError == [kind |-> "none", nodes |-> <<>>]

\* sort_key: (section_position, subsection_position, id), with the default
\* position for an id the order map does not know.
SortKey(subsection_order_map, id) ==
    IF id \in DOMAIN subsection_order_map
    THEN <<subsection_order_map[id][1], subsection_order_map[id][2], id>>
    ELSE <<UnknownPosition, UnknownPosition, id>>

\* Python's tuple comparison.
KeyLess(k1, k2) ==
    \/ k1[1] < k2[1]
    \/ k1[1] = k2[1] /\ k1[2] < k2[2]
    \/ k1[1] = k2[1] /\ k1[2] = k2[2] /\ k1[3] < k2[3]

SortByKey(ids, subsection_order_map) ==
    SortSeq(ids, LAMBDA x, y : KeyLess(SortKey(subsection_order_map, x),
                                       SortKey(subsection_order_map, y)))

\* dependency_map.get(node_id, [])
DependenciesOf(dependency_map, id) ==
    IF id \in DOMAIN dependency_map THEN dependency_map[id] ELSE <<>>

\* The (node, dependency) pairs in the order the two nested loops visit them.
RECURSIVE DependencyPairs(_, _)
DependencyPairs(subsection_ids, dependency_map) ==
    IF subsection_ids = <<>> THEN <<>>
    ELSE LET node == Head(subsection_ids)
             deps == DependenciesOf(dependency_map, node)
         IN  [i \in 1..Len(deps) |-> <<node, deps[i]>>]
                \o DependencyPairs(Tail(subsection_ids), dependency_map)

\* Mutant: a dependency outside the batch still counts in the in-degree.
RECURSIVE BuildGraphCountingOutside(_, _, _, _)
BuildGraphCountingOutside(pairs, node_set, adjacency, indegree) ==
    IF pairs = <<>>
    THEN [error |-> NoError, adjacency |-> adjacency, indegree |-> indegree]
    ELSE LET node == Head(pairs)[1]
             dep  == Head(pairs)[2]
         IN  IF dep \notin node_set
             THEN BuildGraphCountingOutside(Tail(pairs), node_set, adjacency,
                                 [indegree EXCEPT ![node] = @ + 1])
             ELSE IF dep = node
             THEN [error |-> [kind |-> "circular", nodes |-> <<node>>],
                   adjacency |-> adjacency, indegree |-> indegree]
             ELSE IF node \in adjacency[dep]
             THEN BuildGraphCountingOutside(Tail(pairs), node_set, adjacency, indegree)
             ELSE BuildGraphCountingOutside(Tail(pairs), node_set,
                                 [adjacency EXCEPT ![dep] = @ \cup {node}],
                                 [indegree EXCEPT ![node] = @ + 1])

\* The loop that fills adjacency and indegree; returns early on a self edge.
RECURSIVE BuildGraph(_, _, _, _)
BuildGraph(pairs, node_set, adjacency, indegree) ==
    IF pairs = <<>>
    THEN [error |-> NoError, adjacency |-> adjacency, indegree |-> indegree]
    ELSE LET node == Head(pairs)[1]
             dep  == Head(pairs)[2]
         IN  IF dep \notin node_set
             THEN BuildGraph(Tail(pairs), node_set, adjacency, indegree)
             ELSE IF dep = node
             THEN [error |-> [kind |-> "circular", nodes |-> <<node>>],
                   adjacency |-> adjacency, indegree |-> indegree]
             ELSE IF node \in adjacency[dep]
             THEN BuildGraph(Tail(pairs), node_set, adjacency, indegree)
             ELSE BuildGraph(Tail(pairs), node_set,
                             [adjacency EXCEPT ![dep] = @ \cup {node}],
                             [indegree EXCEPT ![node] = @ + 1])

\* Mutant: newly ready dependents are appended and the queue is not re-sorted.
RECURSIVE ReadyLoopUnsorted(_, _, _, _, _)
ReadyLoopUnsorted(ready, ordered, indegree, adjacency, subsection_order_map) ==
    IF ready = <<>> THEN [ordered |-> ordered, indegree |-> indegree]
    ELSE LET current_id == Head(ready)
             dependents == SortByKey(SetToSeqAny(adjacency[current_id]), subsection_order_map)
             indegree2  == [n \in DOMAIN indegree |->
                              IF n \in adjacency[current_id] THEN indegree[n] - 1
                              ELSE indegree[n]]
             newly      == SelectSeq(dependents, LAMBDA d : indegree2[d] = 0)
         IN  ReadyLoopUnsorted(Tail(ready) \o newly, Append(ordered, current_id),
                               indegree2, adjacency, subsection_order_map)

\* while ready: pop the head, release its dependents, keep the queue sorted.
RECURSIVE ReadyLoop(_, _, _, _, _)
ReadyLoop(ready, ordered, indegree, adjacency, subsection_order_map) ==
    IF ready = <<>> THEN [ordered |-> ordered, indegree |-> indegree]
    ELSE LET current_id == Head(ready)
             dependents == SortByKey(SetToSeqAny(adjacency[current_id]), subsection_order_map)
             indegree2  == [n \in DOMAIN indegree |->
                              IF n \in adjacency[current_id] THEN indegree[n] - 1
                              ELSE indegree[n]]
             newly      == SelectSeq(dependents, LAMBDA d : indegree2[d] = 0)
         IN  ReadyLoop(SortByKey(Tail(ready) \o newly, subsection_order_map),
                       Append(ordered, current_id),
                       indegree2, adjacency, subsection_order_map)

\* Mutant: a cycle is not reported; the subsections on it are left out.
TopologicalOrderDroppingCycle(subsection_ids, dependency_map, subsection_order_map) ==
    IF subsection_ids = <<>> THEN [ordered |-> <<>>, error |-> NoError]
    ELSE
    LET node_set == Range(subsection_ids)
        graph == BuildGraph(DependencyPairs(subsection_ids, dependency_map), node_set,
                            [n \in node_set |-> {}], [n \in node_set |-> 0])
        ready == SortByKey(SelectSeq(subsection_ids, LAMBDA n : graph.indegree[n] = 0),
                           subsection_order_map)
        walk  == ReadyLoop(ready, <<>>, graph.indegree, graph.adjacency,
                           subsection_order_map)
    IN  [ordered |-> walk.ordered, error |-> NoError]

\* Returns [ordered, error]: the order, or an empty order and the error.
TopologicalOrder(subsection_ids, dependency_map, subsection_order_map) ==
    IF subsection_ids = <<>> THEN [ordered |-> <<>>, error |-> NoError]
    ELSE
    LET node_set == Range(subsection_ids)
        graph == BuildGraph(DependencyPairs(subsection_ids, dependency_map), node_set,
                            [n \in node_set |-> {}], [n \in node_set |-> 0])
    IN  IF graph.error # NoError THEN [ordered |-> <<>>, error |-> graph.error]
        ELSE
        LET ready == SortByKey(SelectSeq(subsection_ids,
                                         LAMBDA n : graph.indegree[n] = 0),
                               subsection_order_map)
            walk  == ReadyLoop(ready, <<>>, graph.indegree, graph.adjacency,
                               subsection_order_map)
        IN  IF Len(walk.ordered) # Len(subsection_ids)
            THEN [ordered |-> <<>>,
                  error |-> [kind |-> "circular",
                             nodes |-> SelectSeq(subsection_ids,
                                                 LAMBDA n : walk.indegree[n] > 0)]]
            ELSE [ordered |-> walk.ordered, error |-> NoError]

(***************************************************************************)
(* Dependency references of a configuration                                *)
(* (src/src/workspace/data_sources.py) and their expansion.                *)
(*                                                                         *)
(* A raw list entry is an integer: an id (a string in the program), the id *)
(* padded with white space (id + 100), a blank string (0), or a value that *)
(* is not a string (-1).  Section ids are 11 and 12.                       *)
(***************************************************************************)
Padded(id) == id + 100

IsString(value) == value >= 0

\* str.strip()
Strip(value) == IF value > 100 THEN value - 100 ELSE value

\* _stable_unique_strings: keep the stripped, non-blank strings, first seen first.
RECURSIVE StableUniqueFrom(_, _)
StableUniqueFrom(values, normalized) ==
    IF values = <<>> THEN normalized
    ELSE LET value == Head(values)
             candidate == Strip(value)
         IN  IF ~IsString(value) \/ candidate = 0 \/ candidate \in Range(normalized)
             THEN StableUniqueFrom(Tail(values), normalized)
             ELSE StableUniqueFrom(Tail(values), Append(normalized, candidate))

StableUniqueStrings(values) == StableUniqueFrom(values, <<>>)

\* A subsection without a stored configuration (data_source_config is NULL).
NoConfig == [kind |-> "none"]

NoDependencies == [section_ids |-> <<>>, subsection_ids |-> <<>>]

\* extract_context_dependencies
ExtractContextDependencies(data_source_config) ==
    IF data_source_config = NoConfig THEN NoDependencies
    ELSE [section_ids |-> StableUniqueStrings(data_source_config.dependencies.section_ids),
          subsection_ids |->
              StableUniqueStrings(data_source_config.dependencies.subsection_ids)]

\* sorted(section["subsections"], key=position)
SortByPosition(rows) == SortSeq(rows, LAMBDA x, y : x.position < y.position)

\* _build_template_structure_maps: section id -> ordered subsection ids, and
\* subsection id -> (section position, subsection position).
BuildTemplateStructureMaps(sections) ==
    LET ordered(i) == SortByPosition(sections[i].subsections)
        idsOf(i) == [k \in 1..Len(ordered(i)) |-> ordered(i)[k].id]
        secIndex(sid) == CHOOSE i \in 1..Len(sections) : sections[i].id = sid
        allSubs == UNION {{<<i, sections[i].subsections[k]>> :
                              k \in 1..Len(sections[i].subsections)} :
                          i \in 1..Len(sections)}
        ownerOf(id) == CHOOSE p \in allSubs : p[2].id = id
    IN  [section_to_subsections |->
            [sid \in {sections[i].id : i \in 1..Len(sections)} |-> idsOf(secIndex(sid))],
         subsection_order_map |->
            [id \in {p[2].id : p \in allSubs} |->
                <<sections[ownerOf(id)[1]].position, ownerOf(id)[2].position>>]]

\* section_to_subsections.get(section_id, [])
SubsectionsOfSection(section_to_subsections, section_id) ==
    IF section_id \in DOMAIN section_to_subsections
    THEN section_to_subsections[section_id] ELSE <<>>

\* The two loops of _resolve_dependency_subsection_ids share this step: append
\* the candidates that are neither the current subsection nor seen before.
\* current_subsection_id = 0 stands for None.
RECURSIVE AppendDependencies(_, _, _)
AppendDependencies(candidates, dependency_ids, current_subsection_id) ==
    IF candidates = <<>> THEN dependency_ids
    ELSE LET subsection_id == Head(candidates)
         IN  IF \/ (current_subsection_id # 0 /\ subsection_id = current_subsection_id)
                \/ subsection_id \in Range(dependency_ids)
             THEN AppendDependencies(Tail(candidates), dependency_ids, current_subsection_id)
             ELSE AppendDependencies(Tail(candidates), Append(dependency_ids, subsection_id),
                                     current_subsection_id)

\* Mutant: the explicit subsection ids are appended without the self check.
ResolveDependencyIdsKeepingSelf(resolved_data_source_config, section_to_subsections, current_subsection_id) ==
    LET dependencies == ExtractContextDependencies(resolved_data_source_config)
        fromSections ==
            Concat([i \in 1..Len(dependencies.section_ids) |->
                      SubsectionsOfSection(section_to_subsections,
                                           dependencies.section_ids[i])])
    IN  AppendDependencies(dependencies.subsection_ids,
            AppendDependencies(fromSections, <<>>, current_subsection_id), 0)

\* _resolve_dependency_subsection_ids
ResolveDependencySubsectionIds(resolved_data_source_config, section_to_subsections, current_subsection_id) ==
    LET dependencies == ExtractContextDependencies(resolved_data_source_config)
        fromSections ==
            Concat([i \in 1..Len(dependencies.section_ids) |->
                      SubsectionsOfSection(section_to_subsections,
                                           dependencies.section_ids[i])])
    IN  AppendDependencies(dependencies.subsection_ids,
            AppendDependencies(fromSections, <<>>, current_subsection_id),
            current_subsection_id)

(***************************************************************************)
(* Run inputs and configuration resolution.                                *)
(*                                                                         *)
(* A stored configuration has one data input whose parameter is a literal  *)
(* or a {"$var": name} binding (with or without "$default"), and the       *)
(* dependency references.  The parameter is declared as an integer: the    *)
(* values 1 and 2 are integers, -1 stands for a value of another type.     *)
(***************************************************************************)
EmptyInputs == [k \in {} |-> 0]

\* Mutant: the saved preset wins over the caller's value.
MergePresetWins(preset_inputs, provided_inputs) ==
    [k \in DOMAIN preset_inputs \cup DOMAIN provided_inputs |->
        IF k \in DOMAIN preset_inputs THEN preset_inputs[k] ELSE provided_inputs[k]]

\* {**preset_inputs, **provided_inputs}
MergeRunInputs(preset_inputs, provided_inputs) ==
    [k \in DOMAIN preset_inputs \cup DOMAIN provided_inputs |->
        IF k \in DOMAIN provided_inputs THEN provided_inputs[k] ELSE preset_inputs[k]]

Literal(value) == [kind |-> "literal", name |-> "", has_default |-> FALSE, value |-> value]

Variable(name) == [kind |-> "var", name |-> name, has_default |-> FALSE, value |-> 0]

VariableWithDefault(name, value) ==
    [kind |-> "var", name |-> name, has_default |-> TRUE, value |-> value]

Config(input, section_ids, subsection_ids) ==
    [kind |-> "config", input |-> input,
     dependencies |-> [section_ids |-> section_ids, subsection_ids |-> subsection_ids]]

\* _validate_parameter_type for the integer parameter.
ValidParameter(value) == value > 0

Invalid(reason, config) == [valid |-> FALSE, error |-> reason, resolved_config |-> config]

\* resolve_data_source_config: validate with bindings allowed, resolve the
\* bindings against run_inputs, validate again without bindings.
ResolveDataSourceConfig(data_source_config, run_inputs) ==
    IF data_source_config = NoConfig
    THEN Invalid("Data source configuration must be an object", NoConfig)
    ELSE
    LET input == data_source_config.input
        missing == input.kind = "var" /\ input.name \notin DOMAIN run_inputs
                      /\ ~input.has_default
        value == IF input.kind = "literal" THEN input.value
                 ELSE IF input.name \in DOMAIN run_inputs THEN run_inputs[input.name]
                 ELSE input.value
    IN  IF input.kind = "literal" /\ ~ValidParameter(input.value)
        THEN Invalid("parameter must be an integer", data_source_config)
        ELSE IF missing THEN Invalid("Missing run input", data_source_config)
        ELSE IF ~ValidParameter(value)
        THEN Invalid("parameter must be an integer", data_source_config)
        ELSE [valid |-> TRUE, error |-> "",
              resolved_config |->
                  [kind |-> "config", input |-> Literal(value),
                   dependencies |-> ExtractContextDependencies(data_source_config)]]

(***************************************************************************)
(* Generated content and context entries.                                  *)
(*                                                                         *)
(* A content value records which run produced it (by: 0 for content that   *)
(* was stored before any run of the model, j for batch job j, 10 + n for   *)
(* the n-th generate_section call), for which subsection, and its length.  *)
(***************************************************************************)
SummaryLimit == 500

MaxContextItems == 5

NoContent == [kind |-> "none", by |-> 0, sub |-> 0, len |-> 0]

NoEntry == [kind |-> "none"]

SectionRunTag(n) == 10 + n

\* content[:500] if len(content) > 500 else content
Truncate(len) == IF len > SummaryLimit THEN SummaryLimit ELSE len

\* _build_generation_context_entry
BuildGenerationContextEntry(summary, subsection_id) ==
    [subsection_id |-> subsection_id,
     content_summary |-> [summary EXCEPT !.len = Truncate(@)]]

\* The context summary of content generated in this run: the content itself,
\* or _summarize_chart_payload for a chart document.
GeneratedSummary(content) ==
    IF content.kind = "json"
    THEN [form |-> "chart_generated", by |-> content.by, sub |-> content.sub, len |-> 1]
    ELSE [form |-> "text", by |-> content.by, sub |-> content.sub, len |-> content.len]

\* Mutant: the window keeps the first max_items entries.
BuildPriorContextFromStart(generated, max_items) ==
    IF Len(generated) > max_items /\ max_items > 0
    THEN SubSeq(generated, 1, max_items)
    ELSE generated

\* _build_prior_context: the last max_items entries, oldest first ("" is <<>>).
BuildPriorContext(generated, max_items) ==
    IF Len(generated) > max_items /\ max_items > 0
    THEN SubSeq(generated, Len(generated) - max_items + 1, Len(generated))
    ELSE generated

(***************************************************************************)
(* State.                                                                  *)
(***************************************************************************)
VARIABLES
    topoIn,      \* arguments of a call of _topological_order_subsection_ids
    topoOut,     \* its result, once the call has returned
    depsIn,      \* arguments of a call of _resolve_dependency_subsection_ids
    depsOut,     \* its result, once the call has returned
    subs,        \* table subsections: id -> row
    versions,    \* table subsection_versions
    preset,      \* template_generation_presets.run_inputs of the template
    jobs,        \* _jobs: job id -> GenerationJob (job ids are 1, 2, ...)
    tasks,       \* the frame of each job's background task (_run_generation)
    sect,        \* the frame of the generate_section call in flight
    startResult, \* what the last start_generation call returned
    sectResult,  \* what the last generate_section call returned
    ops,         \* client requests made so far
    statusResult, \* what the last get_generation_status call returned
    fnIn,        \* arguments of a call of a function of data_sources.py
    fnOut        \* its result, once the call has returned

graphVars == <<topoIn, topoOut, depsIn, depsOut>>

bindVars == <<fnIn, fnOut>>

orchVars == <<subs, versions, preset, jobs, tasks, sect, startResult, sectResult, ops,
              statusResult>>

vars == <<topoIn, topoOut, depsIn, depsOut,
          subs, versions, preset, jobs, tasks, sect, startResult, sectResult, ops,
          statusResult, fnIn, fnOut>>

IdleTopoIn == [subsection_ids |-> <<>>, dependency_map |-> <<>>,
               subsection_order_map |-> <<>>]
IdleTopoOut == [done |-> FALSE, ordered |-> <<>>, error |-> NoError]
IdleDepsIn == [sections |-> <<>>, config |-> NoConfig, current |-> 0]
IdleDepsOut == [done |-> FALSE, ids |-> <<>>]

IdleFn == [op |-> "none"]
IdleStatus == [calls |-> 0, job_id |-> 0, found |-> FALSE, status |-> "none",
               current_index |-> 0, subsections |-> <<>>]

BindIdle ==
    /\ fnIn = IdleFn
    /\ fnOut = IdleFn

GraphIdle ==
    /\ topoIn = IdleTopoIn
    /\ topoOut = IdleTopoOut
    /\ depsIn = IdleDepsIn
    /\ depsOut = IdleDepsOut
    /\ BindIdle

(***************************************************************************)
(* Bounds of the orchestrator model.                                       *)
(***************************************************************************)
MaxOps == 2        \* client requests (start, generate_section, edits)
MaxJobs == 1       \* batch jobs accepted

SubsectionIds == {1, 2, 3}

\* The sections of the template, by position.
SectionOrder == <<11, 12>>

ContentLengths == {120, 800}

(***************************************************************************)
(* Storage reads (src/src/workspace).                                      *)
(***************************************************************************)
Row(id) ==
    [id |-> id, section_id |-> subs[id].section_id, position |-> subs[id].position,
     widget_type |-> subs[id].widget_type, instructions |-> subs[id].instructions,
     data_source_config |-> subs[id].data_source_config, content |-> subs[id].content]

SubsectionExists(id) == id \in SubsectionIds /\ subs[id].exists

\* SELECT ... FROM subsections WHERE section_id = %s ORDER BY position
SectionSubsections(section_id) ==
    SortByPosition(SetToSeqAny({Row(id) : id \in {x \in SubsectionIds :
                                   subs[x].exists /\ subs[x].section_id = section_id}}))

\* get_sections(template_id, include_content=True)
GetSections ==
    [i \in 1..Len(SectionOrder) |->
        [id |-> SectionOrder[i], position |-> i,
         subsections |-> SectionSubsections(SectionOrder[i])]]

\* Eligible for generation: instructions, or a chart widget.
IsEligible(sub) == sub.instructions \/ sub.widget_type = "chart"

(***************************************************************************)
(* Validation and ordering shared by start_generation and generate_section.*)
(***************************************************************************)
\* The eligible subsections of the sections, in the order the loops visit them.
EligibleRows(sections) ==
    Concat([i \in 1..Len(sections) |-> SelectSeq(sections[i].subsections, IsEligible)])

\* _validate_data_source_config for each eligible subsection.
CheckRows(rows, run_inputs) ==
    [i \in 1..Len(rows) |->
        [sub |-> rows[i],
         resolution |-> ResolveDataSourceConfig(rows[i].data_source_config, run_inputs)]]

\* Mutant: validation stops at the first failing subsection.
FirstValidationError(checked) ==
    LET bad == SelectSeq(checked, LAMBDA c : ~c.resolution.valid)
    IN  IF bad = <<>> THEN <<>>
        ELSE <<[subsection_id |-> bad[1].sub.id, reason |-> bad[1].resolution.error]>>

\* validation_errors: one _build_validation_error per failing subsection.
ValidationErrors(checked) ==
    LET bad == SelectSeq(checked, LAMBDA c : ~c.resolution.valid)
    IN  [i \in 1..Len(bad) |->
            [subsection_id |-> bad[i].sub.id, reason |-> bad[i].resolution.error]]

\* SubsectionProgress(...) for each subsection that validated (generate_section
\* keeps the same fields on its target dicts).
NewProgress(checked, section_to_subsections) ==
    LET good == SelectSeq(checked, LAMBDA c : c.resolution.valid)
    IN  [i \in 1..Len(good) |->
            [subsection_id |-> good[i].sub.id,
             position |-> good[i].sub.position,
             widget_type |-> good[i].sub.widget_type,
             resolved_data_source_config |-> good[i].resolution.resolved_config,
             dependency_subsection_ids |->
                 ResolveDependencySubsectionIds(good[i].resolution.resolved_config,
                                                section_to_subsections, good[i].sub.id),
             status |-> "pending",
             error |-> ""]]

ProgressIds(subsections) == [i \in 1..Len(subsections) |-> subsections[i].subsection_id]

\* Mutant: the subsections stay in document order, whatever they depend on.
OrderByDocument(subsections, subsection_order_map) ==
    LET ids == SortByKey(ProgressIds(subsections), subsection_order_map)
        byId(id) == subsections[CHOOSE i \in 1..Len(subsections) :
                                   subsections[i].subsection_id = id]
    IN  [error |-> NoError, subsections |-> [k \in 1..Len(ids) |-> byId(ids[k])]]

\* The dependency map of the subsections, their topological order, and the
\* subsections rearranged in that order.
OrderSubsections(subsections, subsection_order_map) ==
    LET ids == ProgressIds(subsections)
        byId(id) == subsections[CHOOSE i \in 1..Len(subsections) :
                                   subsections[i].subsection_id = id]
        dependency_map == [id \in Range(ids) |-> byId(id).dependency_subsection_ids]
        topo == TopologicalOrder(ids, dependency_map, subsection_order_map)
    IN  [error |-> topo.error,
         subsections |-> [k \in 1..Len(topo.ordered) |-> byId(topo.ordered[k])]]

(***************************************************************************)
(* Storage writes.                                                         *)
(***************************************************************************)
\* Mutant: the version row is not committed.
VersionsWithoutCommit(id, by) == versions

\* save_subsection_version on an existing subsection: the new version row.
VersionsAfterSave(id, by) ==
    versions \cup {[subsection_id |-> id, version_number |-> subs[id].version_number + 1,
                    by |-> by]}

\* ... and the subsection row with the new content and version number.
SubsAfterSave(id, content) ==
    [subs EXCEPT ![id].content = content, ![id].version_number = @ + 1]

(***************************************************************************)
(* Dependency context.                                                     *)
(***************************************************************************)
\* _load_subsection_context_entry: the entry of the content stored now.
LoadSubsectionContextEntry(id) ==
    IF ~SubsectionExists(id) THEN NoEntry
    ELSE IF subs[id].content = NoContent THEN NoEntry
    ELSE LET content == subs[id].content
         IN  BuildGenerationContextEntry(
                 IF content.kind = "json"
                 THEN [form |-> "chart_loaded", by |-> content.by, sub |-> content.sub,
                       len |-> 1]
                 ELSE [form |-> "text", by |-> content.by, sub |-> content.sub,
                       len |-> content.len],
                 id)

\* Mutant: the stored content of a dependency is read again at every use.
RECURSIVE CollectDependencyEntriesUncached(_, _, _, _)
CollectDependencyEntriesUncached(dependency_subsection_ids, by_id, cached, entries) ==
    IF dependency_subsection_ids = <<>> THEN [entries |-> entries, cached |-> cached]
    ELSE LET id == Head(dependency_subsection_ids)
             cached2 == IF id \notin DOMAIN by_id
                        THEN [k \in DOMAIN cached \cup {id} |->
                                 IF k = id THEN LoadSubsectionContextEntry(id)
                                 ELSE cached[k]]
                        ELSE cached
             entry == IF id \in DOMAIN by_id THEN by_id[id] ELSE cached2[id]
         IN  CollectDependencyEntriesUncached(Tail(dependency_subsection_ids), by_id, cached2,
                 IF entry # NoEntry THEN Append(entries, entry) ELSE entries)

\* The loop of _build_dependency_context_from_ids: the entries found, and the
\* cache it fills.
RECURSIVE CollectDependencyEntries(_, _, _, _)
CollectDependencyEntries(dependency_subsection_ids, by_id, cached, entries) ==
    IF dependency_subsection_ids = <<>> THEN [entries |-> entries, cached |-> cached]
    ELSE LET id == Head(dependency_subsection_ids)
             cached2 == IF id \notin DOMAIN by_id /\ id \notin DOMAIN cached
                        THEN [k \in DOMAIN cached \cup {id} |->
                                 IF k = id THEN LoadSubsectionContextEntry(id)
                                 ELSE cached[k]]
                        ELSE cached
             entry == IF id \in DOMAIN by_id THEN by_id[id] ELSE cached2[id]
         IN  CollectDependencyEntries(Tail(dependency_subsection_ids), by_id, cached2,
                 IF entry # NoEntry THEN Append(entries, entry) ELSE entries)

\* _build_dependency_context_from_ids
BuildDependencyContextFromIds(dependency_subsection_ids, by_id, cached) ==
    LET found == CollectDependencyEntries(dependency_subsection_ids, by_id, cached, <<>>)
    IN  [context |-> BuildPriorContext(found.entries, Len(found.entries)),
         cached |-> found.cached]

\* dependency_context or _build_prior_context(generated_context)
PriorContext(dependency_context, generated_context) ==
    IF dependency_context # <<>> THEN dependency_context
    ELSE BuildPriorContext(generated_context, MaxContextItems)

EmptyMap == [k \in {} |-> NoEntry]

(***************************************************************************)
(* start_generation.                                                       *)
(***************************************************************************)
NewJob(subsections) ==
    [status |-> "pending", subsections |-> subsections, current_index |-> 0,
     generated_context |-> <<>>, error |-> ""]

NewTask ==
    [pc |-> "created", i |-> 0, target |-> 0, config |-> NoConfig, prior |-> <<>>,
     by_id |-> EmptyMap, cached |-> EmptyMap, started |-> <<>>, outcomes |-> <<>>]

StartReturn(kind, validation_errors, job_id, provided, saved) ==
    [calls |-> startResult.calls + 1, kind |-> kind,
     validation_errors |-> validation_errors, job_id |-> job_id,
     preset_inputs |-> preset, provided |-> provided, preset_saved |-> saved]

\* Mutant: the new job is stored under the key of the latest job.
RegisterJobUnderLatestKey(table, job) == IF table = <<>> THEN <<job>> ELSE [table EXCEPT ![Len(table)] = job]

\* _jobs[job_id] = job, job_id a fresh uuid4: a new key, every other entry
\* of the table is left as it is.
RegisterJob(table, job) == Append(table, job)

\* The whole handler: it has no suspension point.  preset_save_raises is
\* whether save_template_generation_preset raises.  max_ops and max_jobs
\* bound the client requests and the accepted jobs of a run of the model.
StartGenerationBounded(max_ops, max_jobs, provided, preset_save_raises) ==
    /\ ops < max_ops
    /\ Len(tasks) < max_jobs
    /\ ops' = ops + 1
    /\ LET sections == GetSections
           run_inputs == MergeRunInputs(preset, provided)
           maps == BuildTemplateStructureMaps(sections)
           checked == CheckRows(EligibleRows(sections), run_inputs)
           validation_errors == ValidationErrors(checked)
           progress == NewProgress(checked, maps.section_to_subsections)
           plan == OrderSubsections(progress, maps.subsection_order_map)
       IN  IF sections = <<>>
           THEN /\ startResult' = StartReturn("no_sections", <<>>, 0, provided, FALSE)
                /\ UNCHANGED <<preset, jobs, tasks>>
           ELSE IF validation_errors # <<>>
           THEN /\ startResult' = StartReturn("validation", validation_errors, 0,
                                              provided, FALSE)
                /\ UNCHANGED <<preset, jobs, tasks>>
           ELSE IF progress = <<>>
           THEN /\ startResult' = StartReturn("no_eligible", <<>>, 0, provided, FALSE)
                /\ UNCHANGED <<preset, jobs, tasks>>
           ELSE IF plan.error # NoError
           THEN /\ startResult' = StartReturn("dependency", <<>>, 0, provided, FALSE)
                /\ UNCHANGED <<preset, jobs, tasks>>
           ELSE /\ preset' = IF preset_save_raises THEN preset ELSE run_inputs
                /\ jobs' = RegisterJob(jobs, NewJob(plan.subsections))
                /\ tasks' = Append(tasks, NewTask)
                /\ startResult' = StartReturn("job", <<>>, Len(tasks) + 1, provided,
                                              ~preset_save_raises)
    /\ UNCHANGED <<subs, versions, sect, sectResult>>
    /\ UNCHANGED <<graphVars, bindVars, statusResult>>

StartGeneration(provided, preset_save_raises) == StartGenerationBounded(MaxOps, MaxJobs, provided, preset_save_raises)

\* get_generation_status: a read of _jobs.  The returned dictionary is built
\* from the job record; an unknown id gives None (found = FALSE).
StatusReturn(job_id) ==
    IF job_id \in DOMAIN jobs
    THEN [calls |-> statusResult.calls + 1, job_id |-> job_id, found |-> TRUE,
          status |-> jobs[job_id].status,
          current_index |-> jobs[job_id].current_index,
          subsections |-> [i \in DOMAIN jobs[job_id].subsections |->
                             [subsection_id |-> jobs[job_id].subsections[i].subsection_id,
                              status |-> jobs[job_id].subsections[i].status,
                              error |-> jobs[job_id].subsections[i].error]]]
    ELSE [calls |-> statusResult.calls + 1, job_id |-> job_id, found |-> FALSE,
          status |-> "none", current_index |-> 0, subsections |-> <<>>]

GetGenerationStatus(max_polls, job_id) ==
    /\ statusResult.calls < max_polls
    /\ statusResult' = StatusReturn(job_id)
    /\ UNCHANGED <<subs, versions, preset, jobs, tasks, sect, startResult, sectResult, ops>>
    /\ UNCHANGED <<graphVars, bindVars>>

(***************************************************************************)
(* _run_generation, one action per stretch between suspension points.      *)
(***************************************************************************)
\* Mutant: a failure is recorded without the exception's message.
MarkFailedWithoutMessage(progress, message) ==
    [progress EXCEPT !.status = "failed"]

\* Mutant: a failure records the message and leaves the status as it is.
MarkFailedKeepingStatus(progress, message) ==
    [progress EXCEPT !.error = message]

\* except Exception as e: status FAILED, error str(e)
MarkFailed(progress, message) ==
    [progress EXCEPT !.status = "failed", !.error = message]

\* Mutant: the step re-resolves the configuration stored now.
LiveConfiguration(progress) ==
    IF SubsectionExists(progress.subsection_id)
    THEN ResolveDataSourceConfig(subs[progress.subsection_id].data_source_config,
                                 preset).resolved_config
    ELSE NoConfig

\* The configuration a step hands to the generator.
StepConfiguration(progress) == progress.resolved_data_source_config

\* job.status = IN_PROGRESS; get_template (which may raise: the outer except).
JobBegin(j, template_raises) ==
    /\ tasks[j].pc = "created"
    /\ IF template_raises
       THEN /\ jobs' = [jobs EXCEPT ![j].status = "failed", ![j].error = "database error"]
            /\ tasks' = [tasks EXCEPT ![j].pc = "done"]
       ELSE /\ jobs' = [jobs EXCEPT ![j].status = "in_progress"]
            /\ tasks' = [tasks EXCEPT ![j].pc = "loop"]
    /\ UNCHANGED <<subs, versions, preset, sect, startResult, sectResult, ops>>
    /\ UNCHANGED <<graphVars, bindVars, statusResult>>

\* The head of an iteration up to the await of the generator: current_index,
\* status, get_subsection, the dependency context.
StepStart(j) ==
    /\ tasks[j].pc = "loop"
    /\ tasks[j].i < Len(jobs[j].subsections)
    /\ LET k == tasks[j].i + 1
           progress == jobs[j].subsections[k]
           id == progress.subsection_id
           dep == BuildDependencyContextFromIds(progress.dependency_subsection_ids,
                                                tasks[j].by_id, tasks[j].cached)
       IN  IF ~SubsectionExists(id)
           THEN /\ jobs' = [jobs EXCEPT ![j].current_index = tasks[j].i,
                               ![j].subsections[k] =
                                   MarkFailed(progress, "Subsection not found")]
                /\ tasks' = [tasks EXCEPT ![j].i = @ + 1,
                               ![j].started = Append(@, id),
                               ![j].outcomes = Append(@, "raised")]
           ELSE /\ jobs' = [jobs EXCEPT ![j].current_index = tasks[j].i,
                               ![j].subsections[k].status = "in_progress"]
                /\ tasks' = [tasks EXCEPT ![j].pc = "await",
                               ![j].target = id,
                               ![j].config = StepConfiguration(progress),
                               ![j].prior = PriorContext(dep.context,
                                                         jobs[j].generated_context),
                               ![j].cached = dep.cached,
                               ![j].started = Append(@, id)]
    /\ UNCHANGED <<subs, versions, preset, sect, startResult, sectResult, ops>>
    /\ UNCHANGED <<graphVars, bindVars, statusResult>>

\* What the awaited generation and the save after it do: both return, or one
\* of them raises (a save that raises has rolled back, so the stored state is
\* the one a raising generator leaves).
Outcomes == {"ok", "generation_error"}

GeneratedContent(widget_type, by, id, len) ==
    [kind |-> IF widget_type = "chart" THEN "json" ELSE "markdown",
     by |-> by, sub |-> id, len |-> IF widget_type = "chart" THEN 0 ELSE len]

\* The generator returns or raises; save_subsection_version (its result is
\* not looked at); the context entry; the status.
StepFinish(j, outcome, len) ==
    /\ tasks[j].pc = "await"
    /\ LET k == tasks[j].i + 1
           progress == jobs[j].subsections[k]
           id == progress.subsection_id
           content == GeneratedContent(progress.widget_type, j, id, len)
           entry == BuildGenerationContextEntry(GeneratedSummary(content), id)
       IN  IF outcome = "ok"
           THEN /\ IF SubsectionExists(id)
                   THEN /\ subs' = SubsAfterSave(id, content)
                        /\ versions' = VersionsAfterSave(id, j)
                   ELSE UNCHANGED <<subs, versions>>
                /\ jobs' = [jobs EXCEPT ![j].generated_context = Append(@, entry),
                               ![j].subsections[k].status = "completed"]
                /\ tasks' = [tasks EXCEPT ![j].pc = "loop", ![j].i = @ + 1,
                               ![j].by_id = [x \in DOMAIN @ \cup {id} |->
                                                IF x = id THEN entry ELSE @[x]],
                               ![j].outcomes = Append(@, "ok")]
           ELSE /\ jobs' = [jobs EXCEPT ![j].subsections[k] =
                               MarkFailed(progress, "LLM request failed")]
                /\ tasks' = [tasks EXCEPT ![j].pc = "loop", ![j].i = @ + 1,
                               ![j].outcomes = Append(@, "raised")]
                /\ UNCHANGED <<subs, versions>>
    /\ UNCHANGED <<preset, sect, startResult, sectResult, ops>>
    /\ UNCHANGED <<graphVars, bindVars, statusResult>>

\* Mutant: the walk ends without the final status.
FinishJobLeavingStatus(job) == job

\* After the loop: job.status = COMPLETED.
FinishJob(job) == [job EXCEPT !.status = "completed"]

JobEnd(j) ==
    /\ tasks[j].pc = "loop"
    /\ tasks[j].i = Len(jobs[j].subsections)
    /\ jobs' = [jobs EXCEPT ![j] = FinishJob(@)]
    /\ tasks' = [tasks EXCEPT ![j].pc = "done"]
    /\ UNCHANGED <<subs, versions, preset, sect, startResult, sectResult, ops>>
    /\ UNCHANGED <<graphVars, bindVars, statusResult>>

(***************************************************************************)
(* generate_section, one action per stretch between suspension points.     *)
(***************************************************************************)
IdleSect ==
    [pc |-> "idle", run |-> 0, section_id |-> 0, targets |-> <<>>, index |-> 0,
     prior |-> <<>>, generated_context |-> <<>>, by_id |-> EmptyMap,
     cached |-> EmptyMap, generated_subsections |-> <<>>]

SectReturn(kind, section_id, validation_errors, run, targets, failed_at, generated) ==
    [calls |-> sectResult.calls + 1, kind |-> kind, section_id |-> section_id,
     validation_errors |-> validation_errors, run |-> run,
     ordered_ids |-> ProgressIds(targets), failed_at |-> failed_at,
     generated_subsections |-> generated]

\* From the call to the first iteration: the section, the preset, validation
\* of every eligible subsection, the dependency order.
GenerateSection(section_id) ==
    /\ ops < MaxOps
    /\ sect.pc = "idle"
    /\ ops' = ops + 1
    /\ LET run == SectionRunTag(sectResult.calls + 1)
           maps == BuildTemplateStructureMaps(GetSections)
           rows == SelectSeq(SectionSubsections(section_id), IsEligible)
           checked == CheckRows(rows, preset)
           validation_errors == ValidationErrors(checked)
           targets == NewProgress(checked, maps.section_to_subsections)
           plan == OrderSubsections(targets, maps.subsection_order_map)
       IN  IF section_id \notin Range(SectionOrder)
           THEN /\ sectResult' = SectReturn("not_found", section_id, <<>>, run, <<>>, 0, <<>>)
                /\ UNCHANGED sect
           ELSE IF validation_errors # <<>>
           THEN /\ sectResult' = SectReturn("validation", section_id, validation_errors, run,
                                            <<>>, 0, <<>>)
                /\ UNCHANGED sect
           ELSE IF targets = <<>>
           THEN /\ sectResult' = SectReturn("no_eligible", section_id, <<>>, run, <<>>, 0, <<>>)
                /\ UNCHANGED sect
           ELSE IF plan.error # NoError
           THEN /\ sectResult' = SectReturn("dependency", section_id, <<>>, run, <<>>, 0, <<>>)
                /\ UNCHANGED sect
           ELSE /\ sect' = [IdleSect EXCEPT !.pc = "loop", !.run = run,
                               !.section_id = section_id, !.targets = plan.subsections]
                /\ sectResult' = SectReturn("running", section_id, <<>>, run,
                                             plan.subsections, 0, <<>>)
    /\ UNCHANGED <<subs, versions, preset, jobs, tasks, startResult>>
    /\ UNCHANGED <<graphVars, bindVars, statusResult>>

\* The head of an iteration up to the await of the generator.
SectionStepStart ==
    /\ sect.pc = "loop"
    /\ sect.index < Len(sect.targets)
    /\ LET target == sect.targets[sect.index + 1]
           dep == BuildDependencyContextFromIds(target.dependency_subsection_ids,
                                                sect.by_id, sect.cached)
       IN  sect' = [sect EXCEPT !.pc = "await",
                       !.prior = PriorContext(dep.context, sect.generated_context),
                       !.cached = dep.cached]
    /\ UNCHANGED <<subs, versions, preset, jobs, tasks, startResult, sectResult, ops>>
    /\ UNCHANGED <<graphVars, bindVars, statusResult>>

\* The generator returns or raises (the exception leaves the call);
\* save_subsection_version, whose error result ends the call.
SectionStepFinish(outcome, len) ==
    /\ sect.pc = "await"
    /\ LET target == sect.targets[sect.index + 1]
           id == target.subsection_id
           content == GeneratedContent(target.widget_type, sect.run, id, len)
           entry == BuildGenerationContextEntry(GeneratedSummary(content), id)
       IN  IF outcome # "ok"
           THEN /\ sectResult' = [SectReturn("exception", sect.section_id,
                                             <<>>, sect.run, sect.targets,
                                             sect.index + 1, <<>>)
                                     EXCEPT !.calls = sectResult.calls]
                /\ sect' = IdleSect
                /\ UNCHANGED <<subs, versions>>
           ELSE IF ~SubsectionExists(id)
           THEN /\ sectResult' = [SectReturn("save_error", sect.section_id,
                                             <<>>, sect.run, sect.targets,
                                             sect.index + 1, <<>>)
                                     EXCEPT !.calls = sectResult.calls]
                /\ sect' = IdleSect
                /\ UNCHANGED <<subs, versions>>
           ELSE /\ subs' = SubsAfterSave(id, content)
                /\ versions' = VersionsAfterSave(id, sect.run)
                /\ sect' = [sect EXCEPT !.pc = "loop", !.index = @ + 1,
                               !.generated_context = Append(@, entry),
                               !.by_id = [x \in DOMAIN @ \cup {id} |->
                                            IF x = id THEN entry ELSE @[x]],
                               !.generated_subsections = Append(@, id)]
                /\ UNCHANGED sectResult
    /\ UNCHANGED <<preset, jobs, tasks, startResult, ops>>
    /\ UNCHANGED <<graphVars, bindVars, statusResult>>

\* After the loop: the call returns the generated subsections.
SectionEnd ==
    /\ sect.pc = "loop"
    /\ sect.index = Len(sect.targets)
    /\ sectResult' = [SectReturn("generated", sect.section_id, <<>>,
                                 sect.run, sect.targets, 0,
                                 sect.generated_subsections)
                         EXCEPT !.calls = sectResult.calls]
    /\ sect' = IdleSect
    /\ UNCHANGED <<subs, versions, preset, jobs, tasks, startResult, ops>>
    /\ UNCHANGED <<graphVars, bindVars, statusResult>>

(***************************************************************************)
(* Edits of the template by other requests (src/src/workspace/subsections).*)
(***************************************************************************)
\* configure_subsection(data_source_config=...): validates, stores the
\* normalized configuration (or NULL).
ConfigureSubsection(id, data_source_config) ==
    /\ ops < MaxOps
    /\ ops' = ops + 1
    /\ LET valid == data_source_config = NoConfig
                       \/ data_source_config.input.kind # "literal"
                       \/ ValidParameter(data_source_config.input.value)
           normalized ==
               IF data_source_config = NoConfig THEN NoConfig
               ELSE [data_source_config EXCEPT
                        !.dependencies = ExtractContextDependencies(data_source_config)]
       IN  IF valid /\ subs[id].exists
           THEN subs' = [subs EXCEPT ![id].data_source_config = normalized]
           ELSE UNCHANGED subs
    /\ UNCHANGED <<versions, preset, jobs, tasks, sect, startResult, sectResult>>
    /\ UNCHANGED <<graphVars, bindVars, statusResult>>

\* update_instructions: a new version (generated_by user_edit, tag 0) with the
\* instructions replaced.
UpdateInstructions(id, instructions) ==
    /\ ops < MaxOps
    /\ ops' = ops + 1
    /\ IF subs[id].exists
       THEN /\ subs' = [subs EXCEPT ![id].instructions = instructions,
                           ![id].version_number = @ + 1]
            /\ versions' = VersionsAfterSave(id, 0)
       ELSE UNCHANGED <<subs, versions>>
    /\ UNCHANGED <<preset, jobs, tasks, sect, startResult, sectResult>>
    /\ UNCHANGED <<graphVars, bindVars, statusResult>>

\* delete_subsection: refused for the last subsection of a section; the
\* versions go with the row, later positions move up.
DeleteSubsection(id) ==
    /\ ops < MaxOps
    /\ ops' = ops + 1
    /\ LET section_id == subs[id].section_id
           count == Cardinality({x \in SubsectionIds :
                                    subs[x].exists /\ subs[x].section_id = section_id})
       IN  IF subs[id].exists /\ count > 1
           THEN /\ subs' = [x \in SubsectionIds |->
                              IF x = id THEN [subs[x] EXCEPT !.exists = FALSE]
                              ELSE IF subs[x].exists /\ subs[x].section_id = section_id
                                      /\ subs[x].position > subs[id].position
                              THEN [subs[x] EXCEPT !.position = @ - 1]
                              ELSE subs[x]]
                /\ versions' = {v \in versions : v.subsection_id # id}
           ELSE UNCHANGED <<subs, versions>>
    /\ UNCHANGED <<preset, jobs, tasks, sect, startResult, sectResult>>
    /\ UNCHANGED <<graphVars, bindVars, statusResult>>

(***************************************************************************)
(* Spec: the orchestrator on one template.                                 *)
(***************************************************************************)
StoredText(id) == [kind |-> "markdown", by |-> 0, sub |-> id, len |-> 120]

TextSubsection(section_id, position, id, data_source_config) ==
    [exists |-> TRUE, section_id |-> section_id, position |-> position,
     widget_type |-> "text", instructions |-> TRUE,
     data_source_config |-> data_source_config,
     content |-> StoredText(id), version_number |-> 1]

ChartSubsection(section_id, position, data_source_config) ==
    [exists |-> TRUE, section_id |-> section_id, position |-> position,
     widget_type |-> "chart", instructions |-> FALSE,
     data_source_config |-> data_source_config,
     content |-> NoContent, version_number |-> 0]

\* Subsections 1 and 2 are text subsections of section 11 with stored
\* content, subsection 3 is a chart of section 12 without content.
Template(c1, c2, c3) ==
    [id \in SubsectionIds |->
        IF id = 1 THEN TextSubsection(11, 1, 1, c1)
        ELSE IF id = 2 THEN TextSubsection(11, 2, 2, c2)
        ELSE ChartSubsection(12, 1, c3)]

Plain == Config(Literal(1), <<>>, <<>>)

TemplateChoices ==
    { Template(Plain, Plain, Plain),
      \* 1 depends on 2 (against document order), 3 on section 11
      Template(Config(Literal(1), <<>>, <<2>>), Plain, Config(Literal(2), <<11>>, <<>>)),
      \* 1 and 2 depend on each other
      Template(Config(Literal(1), <<>>, <<2>>), Config(Literal(1), <<>>, <<1>>), Plain),
      \* run-input bindings
      Template(Config(Variable("k1"), <<>>, <<>>), Config(Variable("k2"), <<>>, <<>>),
               Config(VariableWithDefault("k1", 2), <<>>, <<>>)),
      \* two subsections that cannot validate
      Template(NoConfig, Config(Literal(-1), <<>>, <<>>), Plain),
      \* 2 lists itself, its own section and 1; 3 depends on 1 and needs k1
      Template(Plain, Config(Literal(1), <<11>>, <<2, 1>>),
               Config(Variable("k1"), <<>>, <<1>>)) }

Inputs1(v) == [k \in {"k1"} |-> v]

Inputs12(v1, v2) == [k \in {"k1", "k2"} |-> IF k = "k1" THEN v1 ELSE v2]

PresetChoices == {EmptyInputs, Inputs1(1), Inputs12(1, 2)}

ProvidedChoices == {EmptyInputs, Inputs1(2), Inputs12(2, -1)}

EditConfigs ==
    {Config(Literal(2), <<>>, <<>>), Config(Literal(1), <<>>, <<3, 3>>)}

Init ==
    /\ GraphIdle
    /\ subs \in TemplateChoices
    /\ versions = {[subsection_id |-> id, version_number |-> 1, by |-> 0] : id \in {1, 2}}
    /\ preset \in PresetChoices
    /\ jobs = <<>>
    /\ tasks = <<>>
    /\ sect = IdleSect
    /\ startResult = [calls |-> 0, kind |-> "none", validation_errors |-> <<>>,
                      job_id |-> 0, preset_inputs |-> EmptyInputs,
                      provided |-> EmptyInputs, preset_saved |-> FALSE]
    /\ sectResult = [calls |-> 0, kind |-> "none", section_id |-> 0,
                     validation_errors |-> <<>>,
                     run |-> 0, ordered_ids |-> <<>>, failed_at |-> 0,
                     generated_subsections |-> <<>>]
    /\ ops = 0
    /\ statusResult = IdleStatus

Next ==
    \/ \E provided \in ProvidedChoices, raises \in BOOLEAN :
          StartGeneration(provided, raises)
    \/ \E j \in DOMAIN jobs, raises \in BOOLEAN : JobBegin(j, raises)
    \/ \E j \in DOMAIN jobs : StepStart(j)
    \/ \E j \in DOMAIN jobs, outcome \in Outcomes, len \in ContentLengths :
          StepFinish(j, outcome, len)
    \/ \E j \in DOMAIN jobs : JobEnd(j)
    \/ \E section_id \in Range(SectionOrder) \cup {13} : GenerateSection(section_id)
    \/ SectionStepStart
    \/ \E outcome \in Outcomes, len \in ContentLengths : SectionStepFinish(outcome, len)
    \/ SectionEnd
    \/ \E id \in SubsectionIds, c \in EditConfigs : ConfigureSubsection(id, c)
    \/ \E id \in SubsectionIds, b \in BOOLEAN : UpdateInstructions(id, b)
    \/ \E id \in SubsectionIds : DeleteSubsection(id)

Spec == Init /\ [][Next]_vars

\* The orchestrator at rest, for the specifications of the pure functions.
OrchestratorIdle ==
    /\ subs = Template(Plain, Plain, Plain)
    /\ versions = {}
    /\ preset = EmptyInputs
    /\ jobs = <<>>
    /\ tasks = <<>>
    /\ sect = IdleSect
    /\ startResult = [calls |-> 0, kind |-> "none", validation_errors |-> <<>>,
                      job_id |-> 0, preset_inputs |-> EmptyInputs,
                      provided |-> EmptyInputs, preset_saved |-> FALSE]
    /\ sectResult = [calls |-> 0, kind |-> "none", section_id |-> 0,
                     validation_errors |-> <<>>,
                     run |-> 0, ordered_ids |-> <<>>, failed_at |-> 0,
                     generated_subsections |-> <<>>]
    /\ ops = 0
    /\ statusResult = IdleStatus

(***************************************************************************)
(* SpecJobs: several batch jobs of one template and the status polls of    *)
(* their clients.  The background tasks interleave at their suspension     *)
(* points; start_generation and get_generation_status run without one.     *)
(***************************************************************************)
JobsMaxOps == 2     \* start_generation requests
JobsMaxJobs == 2    \* batch jobs accepted
MaxPolls == 1       \* get_generation_status requests

\* Two eligible subsections each: independent ones, and one that depends on
\* the other and reads a run input.
WithoutSubsection2(template) == [template EXCEPT ![2].exists = FALSE]

JobsTemplates ==
    { WithoutSubsection2(Template(Plain, Plain, Plain)),
      WithoutSubsection2(Template(Plain, Plain,
                                  Config(VariableWithDefault("k1", 2), <<>>, <<1>>))) }

JobsProvided == {EmptyInputs}

JobsLengths == {120}

\* Job ids a client may ask for; JobsMaxJobs + 1 is never a key of _jobs.
PolledIds == 1..(JobsMaxJobs + 1)

JobsInit ==
    /\ GraphIdle
    /\ subs \in JobsTemplates
    /\ versions = {}
    /\ preset = EmptyInputs
    /\ jobs = <<>>
    /\ tasks = <<>>
    /\ sect = IdleSect
    /\ startResult = [calls |-> 0, kind |-> "none", validation_errors |-> <<>>,
                      job_id |-> 0, preset_inputs |-> EmptyInputs,
                      provided |-> EmptyInputs, preset_saved |-> FALSE]
    /\ sectResult = [calls |-> 0, kind |-> "none", section_id |-> 0,
                     validation_errors |-> <<>>,
                     run |-> 0, ordered_ids |-> <<>>, failed_at |-> 0,
                     generated_subsections |-> <<>>]
    /\ ops = 0
    /\ statusResult = IdleStatus

\* One stretch of the background task of job j, up to its next suspension
\* point or its end.
TaskStep(j) ==
    /\ j \in DOMAIN tasks
    /\ \/ \E raises \in BOOLEAN : JobBegin(j, raises)
       \/ StepStart(j)
       \/ \E outcome \in Outcomes, len \in JobsLengths : StepFinish(j, outcome, len)
       \/ JobEnd(j)

JobsNext ==
    \/ \E provided \in JobsProvided, raises \in BOOLEAN :
          StartGenerationBounded(JobsMaxOps, JobsMaxJobs, provided, raises)
    \/ \E j \in DOMAIN jobs, raises \in BOOLEAN : JobBegin(j, raises)
    \/ \E j \in DOMAIN jobs : StepStart(j)
    \/ \E j \in DOMAIN jobs, outcome \in Outcomes, len \in JobsLengths :
          StepFinish(j, outcome, len)
    \/ \E j \in DOMAIN jobs : JobEnd(j)
    \/ \E job_id \in PolledIds : GetGenerationStatus(MaxPolls, job_id)

SpecJobs == JobsInit /\ [][JobsNext]_vars

\* The event loop runs every task that is ready, and every awaited external
\* call returns or raises: a stretch that can run does run.
SpecJobsFair == SpecJobs /\ \A j \in 1..JobsMaxJobs : WF_vars(TaskStep(j))

(***************************************************************************)
(* SpecOrder: _topological_order_subsection_ids on bounded inputs.         *)
(***************************************************************************)
NodeIds == {1, 2, 3}

\* Lists of distinct ids: every ordering of every subset of NodeIds.
IdLists ==
    {s \in UNION {[1..n -> NodeIds] : n \in 0..Cardinality(NodeIds)} : NoDuplicates(s)}

\* Dependency lists: in-batch ids, an id outside every batch (4), a repeat.
DependencyLists ==
    {<<>>, <<1>>, <<2>>, <<3>>, <<1, 2>>, <<2, 4>>, <<3, 4, 3>>}

OrderPositions == {<<1, 1>>, <<1, 2>>, <<2, 1>>}

OrderInit ==
    /\ topoIn \in [subsection_ids : IdLists,
                   dependency_map : [NodeIds -> DependencyLists],
                   subsection_order_map : [NodeIds -> OrderPositions]]
    /\ topoOut = IdleTopoOut
    /\ depsIn = IdleDepsIn
    /\ depsOut = IdleDepsOut
    /\ BindIdle
    /\ OrchestratorIdle

TopologicalOrderCall ==
    /\ ~topoOut.done
    /\ LET r == TopologicalOrder(topoIn.subsection_ids, topoIn.dependency_map,
                                 topoIn.subsection_order_map)
       IN  topoOut' = [done |-> TRUE, ordered |-> r.ordered, error |-> r.error]
    /\ UNCHANGED <<topoIn, depsIn, depsOut>>
    /\ UNCHANGED <<orchVars, bindVars>>

OrderNext == TopologicalOrderCall

SpecOrder == OrderInit /\ [][OrderNext]_vars

(***************************************************************************)
(* SpecDeps: _resolve_dependency_subsection_ids on bounded inputs.         *)
(***************************************************************************)
\* Templates as get_sections returns them: sections by position, the
\* subsections of each by position.
StructureChoices ==
    { << [id |-> 11, position |-> 1,
          subsections |-> <<[id |-> 1, position |-> 1], [id |-> 2, position |-> 2]>>],
         [id |-> 12, position |-> 2,
          subsections |-> <<[id |-> 3, position |-> 1]>>] >>,
      << [id |-> 11, position |-> 1,
          subsections |-> <<[id |-> 3, position |-> 1], [id |-> 1, position |-> 2],
                            [id |-> 2, position |-> 3]>>],
         [id |-> 12, position |-> 2, subsections |-> <<>>] >>,
      << [id |-> 12, position |-> 1,
          subsections |-> <<[id |-> 2, position |-> 1]>>],
         [id |-> 11, position |-> 2,
          subsections |-> <<[id |-> 3, position |-> 1], [id |-> 1, position |-> 2]>>] >> }

RawSectionIdLists ==
    {<<>>, <<11>>, <<12>>, <<11, 12>>, <<12, 11, 12>>, <<Padded(11), 11>>, <<13, -1>>}

RawSubsectionIdLists ==
    {<<>>, <<1>>, <<2>>, <<3, 1>>, <<2, 2, 1>>, <<Padded(1), 3, 1>>, <<0, 4, -1, 2>>}

DepsInit ==
    /\ depsIn \in [sections : StructureChoices,
                   config : [kind : {"config"},
                             dependencies : [section_ids : RawSectionIdLists,
                                             subsection_ids : RawSubsectionIdLists]],
                   current : NodeIds]
    /\ depsOut = IdleDepsOut
    /\ topoIn = IdleTopoIn
    /\ topoOut = IdleTopoOut
    /\ BindIdle
    /\ OrchestratorIdle

ResolveDependenciesCall ==
    /\ ~depsOut.done
    /\ depsOut' = [done |-> TRUE,
                   ids |-> ResolveDependencySubsectionIds(
                              depsIn.config,
                              BuildTemplateStructureMaps(depsIn.sections).section_to_subsections,
                              depsIn.current)]
    /\ UNCHANGED <<topoIn, topoOut, depsIn>>
    /\ UNCHANGED <<orchVars, bindVars>>

DepsNext == ResolveDependenciesCall

SpecDeps == DepsInit /\ [][DepsNext]_vars

(***************************************************************************)
(* Claims about the dependency graph (SpecOrder, SpecDeps).                *)
(***************************************************************************)
\* The edges (dependency, dependent) of the graph restricted to the ids of
\* the list.
InBatchEdges(subsection_ids, dependency_map) ==
    {e \in Range(subsection_ids) \X Range(subsection_ids) :
        e[1] \in Range(DependenciesOf(dependency_map, e[2]))}

RECURSIVE ReachableWithin(_, _, _)
ReachableWithin(edges, frontier, steps) ==
    IF steps = 0 THEN frontier
    ELSE ReachableWithin(edges,
                         frontier \cup {e[2] : e \in {f \in edges : f[1] \in frontier}},
                         steps - 1)

HasCycle(edges, nodes) ==
    \E n \in nodes :
        n \in ReachableWithin(edges, {e[2] : e \in {f \in edges : f[1] = n}},
                              Cardinality(nodes))

TopoEdges == InBatchEdges(topoIn.subsection_ids, topoIn.dependency_map)

IsPermutationOf(s, t) ==
    Len(s) = Len(t) /\ Range(s) = Range(t) /\ NoDuplicates(s)

\* C3: for a list of distinct ids whose restricted dependency graph is
\* acyclic, the sort returns no error and a permutation of the list in which
\* every in-batch dependency precedes its dependent; dependencies on ids
\* outside the list are ignored.
C3_ValidLinearization ==
    (topoOut.done /\ ~HasCycle(TopoEdges, Range(topoIn.subsection_ids))) =>
        /\ topoOut.error = NoError
        /\ IsPermutationOf(topoOut.ordered, topoIn.subsection_ids)
        /\ \A e \in TopoEdges :
              IndexOf(topoOut.ordered, e[1]) < IndexOf(topoOut.ordered, e[2])

C3_Witness ==
    /\ topoOut.done
    /\ Len(topoIn.subsection_ids) = 3
    /\ ~HasCycle(TopoEdges, Range(topoIn.subsection_ids))
    /\ Cardinality(TopoEdges) >= 2
    /\ \E n \in Range(topoIn.subsection_ids) : 4 \in Range(topoIn.dependency_map[n])
    /\ topoOut.ordered # topoIn.subsection_ids
    /\ Len(topoOut.ordered) = 3

\* The document-order key of the claim, read from the order map of the call.
DocumentKey(id) ==
    <<topoIn.subsection_order_map[id][1], topoIn.subsection_order_map[id][2], id>>

DocumentKeyBefore(a, b) ==
    LET ka == DocumentKey(a)
        kb == DocumentKey(b)
    IN  \/ ka[1] < kb[1]
        \/ ka[1] = kb[1] /\ ka[2] < kb[2]
        \/ ka[1] = kb[1] /\ ka[2] = kb[2] /\ ka[3] < kb[3]

\* The subsections that may be emitted at step i: not emitted yet, every
\* in-batch dependency emitted.
AvailableAt(i) ==
    LET emitted == {topoOut.ordered[j] : j \in 1..(i - 1)}
    IN  {n \in Range(topoIn.subsection_ids) \ emitted :
            \A e \in TopoEdges : e[2] = n => e[1] \in emitted}

\* C5: at every step the sort emits the available subsection with the
\* smallest (section_position, subsection_position, id); without dependency
\* edges the output is the list sorted by that key.
C5_DocumentOrderTieBreak ==
    (topoOut.done /\ topoOut.error = NoError) =>
        /\ \A i \in 1..Len(topoOut.ordered) :
              /\ topoOut.ordered[i] \in AvailableAt(i)
              /\ \A m \in AvailableAt(i) \ {topoOut.ordered[i]} :
                    DocumentKeyBefore(topoOut.ordered[i], m)
        /\ TopoEdges = {} =>
              /\ Len(topoOut.ordered) = Len(topoIn.subsection_ids)
              /\ \A i, j \in 1..Len(topoOut.ordered) :
                    i < j => DocumentKeyBefore(topoOut.ordered[i], topoOut.ordered[j])

\* Subsection 1 at (section 2, position 1) and subsection 2 at (section 1,
\* position 2), listed as 1 then 2 without dependencies, come out as 2 then 1.
C5_Witness ==
    /\ topoOut.done
    /\ topoIn.subsection_ids = <<1, 2>>
    /\ TopoEdges = {}
    /\ topoIn.subsection_order_map[1] = <<2, 1>>
    /\ topoIn.subsection_order_map[2] = <<1, 2>>
    /\ topoOut.ordered = <<2, 1>>

\* The normalized references of the configuration of the call.
DepsListed == ExtractContextDependencies(depsIn.config)

SectionRows(section_id) ==
    LET i == CHOOSE k \in 1..Len(depsIn.sections) : depsIn.sections[k].id = section_id
    IN  depsIn.sections[i].subsections

\* C6: the expanded dependency list of S has no duplicate and never contains
\* S, also when S or its own section is listed; a listed section contributes
\* every other subsection of that section, in position order.
C6_NoSelfNoDuplicates ==
    depsOut.done =>
        /\ NoDuplicates(depsOut.ids)
        /\ depsIn.current \notin Range(depsOut.ids)
        /\ \A k \in 1..Len(depsIn.sections) :
              depsIn.sections[k].id \in Range(DepsListed.section_ids) =>
                 LET rows == depsIn.sections[k].subsections
                 IN  /\ \A r \in Range(rows) :
                           r.id # depsIn.current => r.id \in Range(depsOut.ids)
                     /\ \A a, b \in Range(rows) :
                           (a.id # depsIn.current /\ b.id # depsIn.current
                              /\ a.position < b.position)
                           => IndexOf(depsOut.ids, a.id) < IndexOf(depsOut.ids, b.id)

\* S is listed explicitly and its own section is listed, and the result is
\* the rest of the section.
C6_Witness ==
    /\ depsOut.done
    /\ depsIn.current = 1
    /\ 1 \in Range(DepsListed.subsection_ids)
    /\ 11 \in Range(DepsListed.section_ids)
    /\ Len(SectionRows(11)) = 3
    /\ Len(depsOut.ids) = 2

(***************************************************************************)
(* Claims about start_generation and generate_section (Spec).              *)
(***************************************************************************)
\* The subsections a run would generate, read from the stored template.
EligibleIds ==
    {id \in SubsectionIds :
        subs[id].exists /\ (subs[id].instructions \/ subs[id].widget_type = "chart")}

EligibleIdsOf(section_id) == {id \in EligibleIds : subs[id].section_id = section_id}

\* The subsections the stored configuration of id refers to, directly or
\* through a listed section, other than id itself.
DeclaredDependencies(id) ==
    IF subs[id].data_source_config = NoConfig THEN {}
    ELSE LET listed == ExtractContextDependencies(subs[id].data_source_config)
         IN  (Range(listed.subsection_ids)
                \cup {x \in SubsectionIds :
                         subs[x].exists /\ subs[x].section_id \in Range(listed.section_ids)})
             \ {id}

DeclaredEdges(batch) == {e \in batch \X batch : e[1] \in DeclaredDependencies(e[2])}

\* The caller's value for a key it provides, the preset's otherwise.
MergedInputs(preset_inputs, provided) ==
    [k \in DOMAIN preset_inputs \cup DOMAIN provided |->
        IF k \in DOMAIN provided THEN provided[k] ELSE preset_inputs[k]]

FailingIds(batch, run_inputs) ==
    {id \in batch :
        ~ResolveDataSourceConfig(subs[id].data_source_config, run_inputs).valid}

ErrorsNameExactly(validation_errors, ids) ==
    /\ Len(validation_errors) = Cardinality(ids)
    /\ {validation_errors[i].subsection_id : i \in 1..Len(validation_errors)} = ids

NothingPersisted == UNCHANGED <<subs, versions, preset, jobs, tasks, sect>>

StartCalled == startResult'.calls # startResult.calls

SectionCalled ==
    /\ sectResult'.calls # sectResult.calls
    /\ sectResult'.section_id \in Range(SectionOrder)

\* C7: a call is rejected as a whole when any eligible subsection of its batch
\* fails to resolve or validate: the result carries exactly one
\* validation_errors entry per failing eligible subsection, and the call
\* persists no version, registers no job and saves no preset.
C7_AllOrNothingValidation ==
    [][ /\ StartCalled =>
              LET failing == FailingIds(EligibleIds,
                                        MergedInputs(preset, startResult'.provided))
              IN  /\ (startResult'.kind = "validation") <=> (failing # {})
                  /\ failing # {} =>
                        /\ ErrorsNameExactly(startResult'.validation_errors, failing)
                        /\ NothingPersisted
        /\ SectionCalled =>
              LET failing == FailingIds(EligibleIdsOf(sectResult'.section_id), preset)
              IN  /\ (sectResult'.kind = "validation") <=> (failing # {})
                  /\ failing # {} =>
                        /\ ErrorsNameExactly(sectResult'.validation_errors, failing)
                        /\ NothingPersisted ]_vars

\* Both calls were rejected with two failing subsections each, while a third
\* eligible subsection was valid.
C7_Witness ==
    /\ startResult.kind = "validation"
    /\ Len(startResult.validation_errors) = 2
    /\ sectResult.kind = "validation"
    /\ Len(sectResult.validation_errors) = 2
    /\ Cardinality(EligibleIds) = 3
    /\ jobs = <<>>
    /\ \A v \in versions : v.by = 0

\* C4: when every eligible subsection validates and the dependencies among
\* them contain a cycle, start_generation and generate_section return the
\* dependency error and nothing is registered, saved, generated or persisted;
\* they return that error in no other case.
C4_CycleRejectsWholeBatch ==
    [][ /\ StartCalled =>
              LET cyclic ==
                      /\ FailingIds(EligibleIds,
                                    MergedInputs(preset, startResult'.provided)) = {}
                      /\ HasCycle(DeclaredEdges(EligibleIds), EligibleIds)
              IN  /\ (startResult'.kind = "dependency") <=> cyclic
                  /\ cyclic => (NothingPersisted /\ startResult'.job_id = 0)
        /\ SectionCalled =>
              LET batch == EligibleIdsOf(sectResult'.section_id)
                  cyclic == /\ FailingIds(batch, preset) = {}
                            /\ HasCycle(DeclaredEdges(batch), batch)
              IN  /\ (sectResult'.kind = "dependency") <=> cyclic
                  /\ cyclic => (NothingPersisted
                                /\ sectResult'.generated_subsections = <<>>) ]_vars

\* Both calls were rejected for the cycle between subsections 1 and 2, with
\* subsection 3 eligible and off the cycle.
C4_Witness ==
    /\ startResult.kind = "dependency"
    /\ sectResult.kind = "dependency"
    /\ EligibleIds = {1, 2, 3}
    /\ DeclaredEdges(EligibleIds) = {<<1, 2>>, <<2, 1>>}
    /\ jobs = <<>>
    /\ \A v \in versions : v.by = 0

\* C10: the run inputs of an accepted start are the preset overridden per key
\* by the caller; the stored preset then equals the merged map, the job's
\* bindings are resolved from it, and a preset save that fails leaves the job
\* registered.
C10_PresetMerge ==
    startResult.kind = "job" =>
        LET merged == MergedInputs(startResult.preset_inputs, startResult.provided)
            job == jobs[startResult.job_id]
        IN  /\ startResult.job_id \in DOMAIN jobs
            /\ preset = IF startResult.preset_saved THEN merged
                        ELSE startResult.preset_inputs
            /\ \A i \in 1..Len(job.subsections) :
                  LET input == subs[job.subsections[i].subsection_id]
                                  .data_source_config.input
                  IN  (subs[job.subsections[i].subsection_id].data_source_config
                          # NoConfig
                       /\ input.kind = "var" /\ input.name \in DOMAIN merged)
                      => job.subsections[i].resolved_data_source_config.input
                            = Literal(merged[input.name])

\* The caller overrode k1 of a preset that also held k2; both keys were used
\* by the job and saved.
C10_Witness ==
    /\ startResult.kind = "job"
    /\ startResult.preset_saved
    /\ startResult.preset_inputs = Inputs12(1, 2)
    /\ startResult.provided = Inputs1(2)
    /\ preset = Inputs12(2, 2)
    /\ Len(jobs[1].subsections) = 3
    /\ subs[1].data_source_config.input = Variable("k1")
    /\ jobs[1].subsections[1].resolved_data_source_config.input = Literal(2)

\* A preset save that failed: the job is registered, the preset is the old one.
C10_WitnessSaveFailed ==
    /\ startResult.kind = "job"
    /\ ~startResult.preset_saved
    /\ startResult.provided = Inputs1(2)
    /\ Len(jobs) = 1

(***************************************************************************)
(* Claims about the batch job (Spec).                                      *)
(***************************************************************************)
StatusAt(j, k) == jobs[j].subsections[k].status

\* C1: an exception while subsection k of a job is processed marks only that
\* subsection failed, with a non-empty error; the job goes on to the next
\* subsection, every subsection is attempted in order and is completed when
\* its own generation succeeds, and the job ends completed.
C1_FailureIsolation ==
    \A j \in DOMAIN jobs :
        LET job == jobs[j]
            task == tasks[j]
        IN  /\ Len(task.outcomes) = task.i
            /\ \A k \in 1..Len(job.subsections) :
                  /\ (k <= task.i /\ task.outcomes[k] = "raised") =>
                        (StatusAt(j, k) = "failed" /\ job.subsections[k].error # "")
                  /\ (k <= task.i /\ task.outcomes[k] = "ok") =>
                        (StatusAt(j, k) = "completed" /\ job.subsections[k].error = "")
                  /\ k > task.i => StatusAt(j, k) \in {"pending", "in_progress"}
            /\ task.outcomes # <<>> => job.status \in {"in_progress", "completed"}
            /\ (task.pc = "done" /\ job.status # "failed") =>
                  /\ job.status = "completed"
                  /\ task.i = Len(job.subsections)
                  /\ task.started = ProgressIds(job.subsections)

\* The second of three subsections raised; the third was generated afterwards
\* and the job is completed.
C1_Witness ==
    /\ Len(jobs) = 1
    /\ tasks[1].pc = "done"
    /\ tasks[1].outcomes = <<"ok", "raised", "ok">>
    /\ jobs[1].status = "completed"
    /\ jobs[1].subsections[2].status = "failed"
    /\ jobs[1].subsections[2].error # ""
    /\ jobs[1].subsections[3].status = "completed"
    /\ \E v \in versions : v.by = 1 /\ v.subsection_id = jobs[1].subsections[3].subsection_id

\* What a job keeps of each subsection from the moment it is registered.
Frozen(job) ==
    [k \in 1..Len(job.subsections) |->
        <<job.subsections[k].subsection_id,
          job.subsections[k].resolved_data_source_config,
          job.subsections[k].dependency_subsection_ids>>]

\* The job list is a dependency order of the eligible subsections of the
\* template as stored when the job is registered.
RegisteredInOrder(job) ==
    LET ids == ProgressIds(job.subsections)
    IN  /\ IsPermutationOf(ids, SetToSeqAny(EligibleIds))
        /\ \A e \in DeclaredEdges(EligibleIds) : IndexOf(ids, e[1]) < IndexOf(ids, e[2])

\* One subsection at a time, in the order of the job list.
Sequential(j) ==
    LET job == jobs[j]
        task == tasks[j]
    IN  /\ IsPrefix(task.started, ProgressIds(job.subsections))
        /\ Cardinality({k \in 1..Len(job.subsections) : StatusAt(j, k) = "in_progress"})
              <= 1
        /\ \A k \in 1..Len(job.subsections) :
              StatusAt(j, k) = "in_progress" =>
                 /\ task.pc = "await"
                 /\ k = task.i + 1
                 /\ \A m \in 1..(k - 1) : StatusAt(j, m) \in {"completed", "failed"}
                 /\ \A m \in (k + 1)..Len(job.subsections) : StatusAt(j, m) = "pending"
        /\ task.pc = "await" =>
              /\ task.target = job.subsections[task.i + 1].subsection_id
              /\ task.config = job.subsections[task.i + 1].resolved_data_source_config
              /\ task.started = SubSeq(ProgressIds(job.subsections), 1, task.i + 1)

\* C2: a job processes its subsections strictly one at a time in the
\* dependency order computed when it was started; edits of the template while
\* the job runs change neither the order or membership of its list nor the
\* resolved configuration each subsection is generated with.
C2_FrozenSequentialOrder ==
    [][ /\ \A j \in DOMAIN jobs : Frozen(jobs'[j]) = Frozen(jobs[j])
        /\ \A j \in DOMAIN jobs' : Sequential(j)'
        /\ \A j \in DOMAIN jobs' \ DOMAIN jobs : RegisteredInOrder(jobs'[j]) ]_vars

\* Subsection 2 is being generated second with the configuration resolved at
\* the start, after its stored configuration was replaced.
C2_Witness ==
    /\ Len(jobs) = 1
    /\ tasks[1].pc = "await"
    /\ tasks[1].started = <<1, 2>>
    /\ tasks[1].target = 2
    /\ tasks[1].config.input = Literal(1)
    /\ subs[2].data_source_config = Config(Literal(2), <<>>, <<>>)
    /\ Len(jobs[1].subsections) = 3

(***************************************************************************)
(* Claims about generate_section (Spec).                                   *)
(***************************************************************************)
VersionBy(run, id) == \E v \in versions : v.by = run /\ v.subsection_id = id

\* C8: when generate_section starts generating B, every dependency A of B
\* that belongs to the call has been generated and persisted by this call,
\* and the context handed to B holds the summary of the content this call
\* generated for A, not of content stored before the call.
C8_FreshDependencyContext ==
    sect.pc = "await" =>
        LET ids == ProgressIds(sect.targets)
            B == sect.targets[sect.index + 1]
        IN  \A A \in Range(B.dependency_subsection_ids) \cap Range(ids) :
              /\ IndexOf(ids, A) < sect.index + 1
              /\ A \in Range(sect.generated_subsections)
              /\ SubsectionExists(A) => VersionBy(sect.run, A)
              /\ \E n \in 1..Len(sect.prior) :
                    /\ sect.prior[n].subsection_id = A
                    /\ sect.prior[n].content_summary.by = sect.run
              /\ \A n \in 1..Len(sect.prior) :
                    sect.prior[n].subsection_id = A =>
                       sect.prior[n].content_summary.by = sect.run

\* Subsection 1 depends on subsection 2, which follows it in the document and
\* had stored content before the call: 2 was generated first and 1 is being
\* generated with the summary of that new content.
C8_Witness ==
    /\ sect.pc = "await"
    /\ ProgressIds(sect.targets) = <<2, 1>>
    /\ sect.index = 1
    /\ sect.targets[2].dependency_subsection_ids = <<2>>
    /\ \E v \in versions : v.subsection_id = 2 /\ v.by = 0
    /\ VersionBy(sect.run, 2)
    /\ Len(sect.prior) = 1
    /\ sect.prior[1].content_summary.by = sect.run

SectionCallFailed == sectResult.kind \in {"exception", "save_error"}

\* C9 as stated: a generate_section call that fails at its k-th subsection has
\* persisted no new version, not for the k-1 subsections generated before it
\* either.
C9_NoPartialCommit ==
    SectionCallFailed => \A v \in versions : v.by # sectResult.run

\* C9 as amended: a generate_section call that fails at its k-th subsection
\* fails as a whole, reporting no generated subsection, and persists no
\* version for the k-th and later subsections; the k-1 subsections generated
\* before the failure keep the version the call committed for each of them.
C9_FailedCallKeepsEarlierVersions ==
    SectionCallFailed =>
        /\ sectResult.generated_subsections = <<>>
        /\ sectResult.failed_at \in 1..Len(sectResult.ordered_ids)
        /\ \A k \in 1..Len(sectResult.ordered_ids) :
              IF k < sectResult.failed_at
              THEN SubsectionExists(sectResult.ordered_ids[k])
                      => VersionBy(sectResult.run, sectResult.ordered_ids[k])
              ELSE ~VersionBy(sectResult.run, sectResult.ordered_ids[k])

\* The generation of the second subsection raised after the first had been
\* generated and saved.
C9_Witness ==
    /\ sectResult.kind = "exception"
    /\ sectResult.failed_at = 2
    /\ Len(sectResult.ordered_ids) = 2
    /\ VersionBy(sectResult.run, sectResult.ordered_ids[1])
    /\ subs[sectResult.ordered_ids[1]].content.by = sectResult.run


(***************************************************************************)
(* C11  The record of a job in the job table is changed only by the job's  *)
(* own background task.  A step that is not a stretch of the task of job j *)
(* (the task's frame is as before) leaves the record of j as it was: this  *)
(* covers the start of another job and every stretch of another job's      *)
(* task.  A get_generation_status call changes no job, no task and no      *)
(* stored data, reports an unknown id as not found, and reports a known id *)
(* with the status, current_index and subsection statuses of its record.   *)
(***************************************************************************)
StatusCalled == statusResult'.calls = statusResult.calls + 1

ReportsRecord(result, job) ==
    /\ result.status = job.status
    /\ result.current_index = job.current_index
    /\ Len(result.subsections) = Len(job.subsections)
    /\ \A i \in DOMAIN job.subsections :
          /\ result.subsections[i].subsection_id = job.subsections[i].subsection_id
          /\ result.subsections[i].status = job.subsections[i].status

C11_JobChangedOnlyByOwnTask ==
    [][ /\ \A j \in DOMAIN jobs :
              /\ j \in DOMAIN jobs'
              /\ tasks'[j] = tasks[j] => jobs'[j] = jobs[j]
        /\ StatusCalled =>
              /\ UNCHANGED <<jobs, tasks, subs, versions, preset>>
              /\ statusResult'.found = (statusResult'.job_id \in DOMAIN jobs)
              /\ statusResult'.found =>
                    ReportsRecord(statusResult', jobs[statusResult'.job_id])
      ]_vars

\* Two jobs: the first is still walking its subsections with one of them
\* completed, the second has finished, and a poll of an unknown id came back
\* not found.
C11_Witness ==
    /\ Len(jobs) = 2
    /\ jobs[1].status = "in_progress"
    /\ \E i \in DOMAIN jobs[1].subsections : jobs[1].subsections[i].status = "completed"
    /\ jobs[2].status = "completed"
    /\ statusResult.calls = 1
    /\ ~statusResult.found


(***************************************************************************)
(* C12  Every batch job that start_generation accepted eventually has the  *)
(* status completed or failed, polled or not, when every stretch of its    *)
(* task that can run does run (each awaited call returns or raises).  From *)
(* then on the status of the job and the statuses of its subsections stay  *)
(* as they are.                                                            *)
(***************************************************************************)
Accepted(j) == j \in DOMAIN jobs

Terminal(j) == Accepted(j) /\ jobs[j].status \in {"completed", "failed"}

SubsectionStatuses(job) == [i \in DOMAIN job.subsections |-> job.subsections[i].status]

TerminalStays ==
    \A j \in DOMAIN jobs :
        Terminal(j) =>
            /\ j \in DOMAIN jobs'
            /\ jobs'[j].status = jobs[j].status
            /\ SubsectionStatuses(jobs'[j]) = SubsectionStatuses(jobs[j])

C12_JobsTerminate ==
    /\ \A j \in 1..JobsMaxJobs : Accepted(j) ~> Terminal(j)
    /\ [][TerminalStays]_vars

\* A job has completed with one subsection failed and one completed, no
\* client has polled, and another job is still running.
C12_Witness ==
    /\ \E j \in DOMAIN jobs :
          /\ jobs[j].status = "completed"
          /\ \E i \in DOMAIN jobs[j].subsections : jobs[j].subsections[i].status = "failed"
          /\ \E i \in DOMAIN jobs[j].subsections : jobs[j].subsections[i].status = "completed"
    /\ \E j \in DOMAIN jobs : jobs[j].status = "in_progress"
    /\ statusResult.calls = 0


(***************************************************************************)
(* data_sources.py: JSON values.  A value is a record with a kind; a       *)
(* dictionary with a non-blank "$var" is a VariableBinding (kind "var"), a *)
(* dictionary with a non-blank "$period" and no "$var" is a PeriodBinding  *)
(* (kind "period"), every other dictionary has kind "dict".                *)
(***************************************************************************)
None == [kind |-> "none"]
IntValue(n) == [kind |-> "int", v |-> n]
StrValue(t) == [kind |-> "str", v |-> t]
BoolValue(b) == [kind |-> "bool", v |-> b]
ListValue(items) == [kind |-> "list", items |-> items]
DictValue(fields) == [kind |-> "dict", fields |-> fields]
VarBinding(name) == [kind |-> "var", name |-> name, has_default |-> FALSE, default |-> None]
VarBindingWithDefault(name, default) == [kind |-> "var", name |-> name, has_default |-> TRUE, default |-> default]
PeriodBinding(selector, count) == [kind |-> "period", selector |-> selector, count |-> count]

PeriodObject(fiscal_year, fiscal_quarter) ==
    DictValue([fiscal_year |-> IntValue(fiscal_year), fiscal_quarter |-> StrValue(fiscal_quarter)])

Returned(value) == [raised |-> FALSE, value |-> value, error |-> ""]
Raised(message) == [raised |-> TRUE, value |-> None, error |-> message]

(***************************************************************************)
(* _shift_period and _resolve_period_selector.                             *)
(***************************************************************************)
ValidFiscalQuarters == <<"Q1", "Q2", "Q3", "Q4">>

\* Mutant: the year is the quotient rounded towards zero.
ShiftPeriodTruncating(fiscal_year, fiscal_quarter, offset_quarters) ==
    LET quarter_index == IndexOf(ValidFiscalQuarters, fiscal_quarter) - 1
        absolute == fiscal_year * 4 + quarter_index + offset_quarters
    IN  [year |-> IF absolute < 0 THEN 0 - ((0 - absolute) \div 4) ELSE absolute \div 4,
         quarter |-> ValidFiscalQuarters[(absolute % 4) + 1]]

\* absolute // 4 and absolute % 4 round towards minus infinity, as \div and %.
ShiftPeriod(fiscal_year, fiscal_quarter, offset_quarters) ==
    LET quarter_index == IndexOf(ValidFiscalQuarters, fiscal_quarter) - 1
        absolute == fiscal_year * 4 + quarter_index + offset_quarters
    IN  [year |-> absolute \div 4,
         quarter |-> ValidFiscalQuarters[(absolute % 4) + 1]]

ShiftedObject(anchor_year, anchor_quarter, offset_quarters) ==
    LET shifted == ShiftPeriod(anchor_year, anchor_quarter, offset_quarters)
    IN  PeriodObject(shifted.year, shifted.quarter)

DefaultTrailingCount == 4

\* Mutant: the anchor first, then the quarters before it.
TrailingQuartersNewestFirst(anchor_year, anchor_quarter, trailing_count) ==
    ListValue([idx \in 1..trailing_count |->
            ShiftedObject(anchor_year, anchor_quarter, 0 - (idx - 1))])

\* idx of the source runs over range(trailing_count), here over 1..trailing_count.
TrailingQuarters(anchor_year, anchor_quarter, trailing_count) ==
    ListValue([idx \in 1..trailing_count |->
            ShiftedObject(anchor_year, anchor_quarter, 0 - (trailing_count - 1 - (idx - 1)))])

ResolvePeriodSelector(selector, anchor_year, anchor_quarter, count) ==
    LET current == PeriodObject(anchor_year, anchor_quarter)
        qoq == ShiftedObject(anchor_year, anchor_quarter, -1)
        yoy == ShiftedObject(anchor_year, anchor_quarter, -4)
    IN  CASE selector = "current" -> Returned(current)
          [] selector \in {"last_quarter", "qoq"} -> Returned(qoq)
          [] selector = "yoy" -> Returned(yoy)
          [] selector = "current.fiscal_year" -> Returned(current.fields.fiscal_year)
          [] selector = "current.fiscal_quarter" -> Returned(current.fields.fiscal_quarter)
          [] selector \in {"last_quarter.fiscal_year", "qoq.fiscal_year"} ->
                Returned(qoq.fields.fiscal_year)
          [] selector \in {"last_quarter.fiscal_quarter", "qoq.fiscal_quarter"} ->
                Returned(qoq.fields.fiscal_quarter)
          [] selector = "yoy.fiscal_year" -> Returned(yoy.fields.fiscal_year)
          [] selector = "yoy.fiscal_quarter" -> Returned(yoy.fields.fiscal_quarter)
          [] selector = "trailing_quarters" ->
                Returned(TrailingQuarters(anchor_year, anchor_quarter,
                                          IF count # None THEN count.v
                                          ELSE DefaultTrailingCount))
          [] OTHER -> Raised("Unsupported period selector")

(***************************************************************************)
(* SpecPeriod: _resolve_period_selector on bounded anchors, and the call   *)
(* that resolves current at the period it returned.                        *)
(***************************************************************************)
MaxCount == 5

ObjectSelectors == {"current", "last_quarter", "qoq", "yoy"}
YearSelectors == {"current.fiscal_year", "last_quarter.fiscal_year", "qoq.fiscal_year", "yoy.fiscal_year"}
QuarterSelectors == {"current.fiscal_quarter", "last_quarter.fiscal_quarter", "qoq.fiscal_quarter", "yoy.fiscal_quarter"}
KnownSelectors == ObjectSelectors \cup YearSelectors \cup QuarterSelectors \cup {"trailing_quarters"}

\* Years around zero, where rounding matters, and the years of the scenarios.
AnchorYears == {-1, 0, 1, 2024, 2025}

Counts == {None} \cup {IntValue(n) : n \in 1..MaxCount}

TopoDepsIdle ==
    /\ topoIn = IdleTopoIn
    /\ topoOut = IdleTopoOut
    /\ depsIn = IdleDepsIn
    /\ depsOut = IdleDepsOut

PeriodInit ==
    /\ fnIn \in [op : {"resolve_period_selector"},
                 selector : KnownSelectors \cup {"next_quarter"},
                 anchor_year : AnchorYears,
                 anchor_quarter : Range(ValidFiscalQuarters),
                 count : Counts]
    /\ fnOut = IdleFn
    /\ TopoDepsIdle
    /\ OrchestratorIdle

ResolvePeriodSelectorCall ==
    /\ fnOut = IdleFn
    /\ LET r == ResolvePeriodSelector(fnIn.selector, fnIn.anchor_year,
                                      fnIn.anchor_quarter, fnIn.count)
       IN  fnOut' = [op |-> "resolve_period_selector", raised |-> r.raised,
                     value |-> r.value, reanchored |-> FALSE, again |-> None]
    /\ UNCHANGED fnIn
    /\ UNCHANGED <<graphVars, orchVars>>

\* The returned period becomes the anchor of a second call with "current".
ReanchorCall ==
    /\ fnOut # IdleFn
    /\ ~fnOut.reanchored
    /\ ~fnOut.raised
    /\ fnOut.value.kind = "dict"
    /\ LET r == ResolvePeriodSelector("current", fnOut.value.fields.fiscal_year.v,
                                      fnOut.value.fields.fiscal_quarter.v, None)
       IN  fnOut' = [fnOut EXCEPT !.reanchored = TRUE, !.again = r.value]
    /\ UNCHANGED fnIn
    /\ UNCHANGED <<graphVars, orchVars>>

PeriodNext ==
    \/ ResolvePeriodSelectorCall
    \/ ReanchorCall

SpecPeriod == PeriodInit /\ [][PeriodNext]_vars

(***************************************************************************)
(* C16  current, qoq / last_quarter and yoy give the anchor shifted by 0,  *)
(* -1 and -4 quarters: qoq of Q1 is Q4 of the year before and otherwise    *)
(* the quarter before in the same year, yoy is the same quarter of the     *)
(* year before.  The result is a valid anchor (integer year, quarter in    *)
(* Q1..Q4), and resolving current at it gives it back.                     *)
(***************************************************************************)
QuarterBefore(q) == IF q = "Q1" THEN "Q4" ELSE ValidFiscalQuarters[IndexOf(ValidFiscalQuarters, q) - 1]

ExpectedPeriod(selector, y, q) ==
    CASE selector = "current" -> PeriodObject(y, q)
      [] selector \in {"qoq", "last_quarter"} ->
            PeriodObject(IF q = "Q1" THEN y - 1 ELSE y, QuarterBefore(q))
      [] selector = "yoy" -> PeriodObject(y - 1, q)

IsValidAnchor(value) ==
    /\ value.kind = "dict"
    /\ DOMAIN value.fields = {"fiscal_year", "fiscal_quarter"}
    /\ value.fields.fiscal_year.kind = "int"
    /\ value.fields.fiscal_quarter.kind = "str"
    /\ value.fields.fiscal_quarter.v \in Range(ValidFiscalQuarters)

PeriodCallDone == fnIn.op = "resolve_period_selector" /\ fnOut # IdleFn

C16_SelectorsShiftAnchor ==
    (PeriodCallDone /\ fnIn.selector \in ObjectSelectors) =>
        /\ ~fnOut.raised
        /\ IsValidAnchor(fnOut.value)
        /\ fnOut.value = ExpectedPeriod(fnIn.selector, fnIn.anchor_year, fnIn.anchor_quarter)
        /\ fnOut.reanchored => fnOut.again = fnOut.value

\* qoq of 2025 Q1 is 2024 Q4, and current at 2024 Q4 is 2024 Q4.
C16_Witness ==
    /\ PeriodCallDone
    /\ fnIn.selector = "qoq"
    /\ fnIn.anchor_year = 2025
    /\ fnIn.anchor_quarter = "Q1"
    /\ fnOut.value = PeriodObject(2024, "Q4")
    /\ fnOut.reanchored

(***************************************************************************)
(* C17  trailing_quarters with count N >= 1 (4 when $count is absent)      *)
(* returns exactly N periods, each the quarter after the one before it,    *)
(* the last one the anchor.                                                *)
(***************************************************************************)
QuarterOrdinal(period) ==
    period.fields.fiscal_year.v * 4 + IndexOf(ValidFiscalQuarters, period.fields.fiscal_quarter.v)

C17_TrailingQuarters ==
    (PeriodCallDone /\ fnIn.selector = "trailing_quarters") =>
        LET n == IF fnIn.count = None THEN 4 ELSE fnIn.count.v
            periods == fnOut.value.items
        IN  /\ ~fnOut.raised
            /\ fnOut.value.kind = "list"
            /\ Len(periods) = n
            /\ \A i \in 1..n : IsValidAnchor(periods[i])
            /\ \A i \in 1..(n - 1) :
                  QuarterOrdinal(periods[i + 1]) = QuarterOrdinal(periods[i]) + 1
            /\ periods[n] = PeriodObject(fnIn.anchor_year, fnIn.anchor_quarter)

\* No $count, anchor 2025 Q2: four quarters from 2024 Q3 to 2025 Q2.
C17_Witness ==
    /\ PeriodCallDone
    /\ fnIn.selector = "trailing_quarters"
    /\ fnIn.count = None
    /\ fnIn.anchor_year = 2025
    /\ fnIn.anchor_quarter = "Q2"
    /\ Len(fnOut.value.items) = 4
    /\ fnOut.value.items[1] = PeriodObject(2024, "Q3")


(***************************************************************************)
(* Text helpers, defined on the texts the model uses: str.strip(),         *)
(* str.upper(), str.lower() and int() of a value.                          *)
(***************************************************************************)
StripText(t) ==
    CASE t = " m " -> "m"
      [] t = " yoy " -> "yoy"
      [] t = " q1 " -> "q1"
      [] t = " 2024 " -> "2024"
      [] t = "  " -> ""
      [] t = " Revenue rose. " -> "Revenue rose."
      [] OTHER -> t

UpperText(t) ==
    CASE t = "q1" -> "Q1"
      [] t = "q3" -> "Q3"
      [] t = "q5" -> "Q5"
      [] t = "my title" -> "MY TITLE"
      [] OTHER -> t

LowerText(t) ==
    CASE t = "Integer" -> "integer"
      [] t = "ARRAY" -> "array"
      [] OTHER -> t

\* Mutant: a text that is no number counts as 0.
ParseIntLenient(raw) ==
    CASE raw.kind = "int" -> Returned(raw.v)
      [] raw.kind = "str" /\ StripText(raw.v) = "2024" -> Returned(2024)
      [] raw.kind = "str" /\ StripText(raw.v) = "2025" -> Returned(2025)
      [] OTHER -> Returned(0)

\* int(raw): an int as it is, True as 1, a decimal text (blanks around it
\* allowed) as its number; every other text raises ValueError, a list or a
\* dictionary raises TypeError.
ParseInt(raw) ==
    CASE raw.kind = "int" -> Returned(raw.v)
      [] raw.kind = "bool" -> Returned(IF raw.v THEN 1 ELSE 0)
      [] raw.kind = "str" /\ StripText(raw.v) = "2024" -> Returned(2024)
      [] raw.kind = "str" /\ StripText(raw.v) = "2025" -> Returned(2025)
      [] OTHER -> Raised("invalid literal for int()")

IsVariableBinding(value) == value.kind = "var"

GetVariableName(value) == IF IsVariableBinding(value) THEN StripText(value.name) ELSE ""

IsPeriodBinding(value) == value.kind = "period"

GetPeriodSelector(value) == IF IsPeriodBinding(value) THEN StripText(value.selector) ELSE ""

NormalizePeriodQuarter(raw_quarter) ==
    IF raw_quarter.kind # "str" THEN ""
    ELSE LET normalized == UpperText(StripText(raw_quarter.v))
         IN  IF normalized \in Range(ValidFiscalQuarters) THEN normalized ELSE ""

\* $count is given and is not a positive integer.
BadCount(count) == count # None /\ (count.kind # "int" \/ count.v < 1)

(***************************************************************************)
(* _validate_period_binding_for_type, _is_missing_value and                *)
(* _validate_parameter_type.  An error is a text, "" stands for None.      *)
(***************************************************************************)
SelectorShape(selector) ==
    CASE selector \in ObjectSelectors -> "object"
      [] selector \in YearSelectors -> "integer"
      [] selector \in QuarterSelectors -> "string"
      [] selector = "trailing_quarters" -> "array"
      [] OTHER -> ""

\* Mutant: the syntax of the binding is checked, the shape is not.
ValidatePeriodBindingSyntaxOnly(expected_type, value) ==
    LET selector == GetPeriodSelector(value)
    IN  IF selector = "" THEN "Period binding must include non-empty '$period'"
        ELSE IF BadCount(value.count)
        THEN "Period binding '$count' must be a positive integer"
        ELSE IF SelectorShape(selector) = ""
        THEN "Unsupported period selector '" \o selector \o "'"
        ELSE ""

ValidatePeriodBindingForType(expected_type, value) ==
    LET selector == GetPeriodSelector(value)
        expected_shape == SelectorShape(selector)
        compatible ==
            IF expected_type = "number" THEN expected_shape \in {"integer"}
            ELSE IF expected_type = "enum" THEN expected_shape \in {"string"}
            ELSE IF expected_type = "string" THEN expected_shape \in {"string"}
            ELSE expected_shape = expected_type
    IN  IF selector = "" THEN "Period binding must include non-empty '$period'"
        ELSE IF BadCount(value.count)
        THEN "Period binding '$count' must be a positive integer"
        ELSE IF expected_shape = ""
        THEN "Unsupported period selector '" \o selector \o "'"
        ELSE IF ~compatible
        THEN "Period selector '" \o selector \o "' is not compatible with parameter type '"
                 \o expected_type \o "'"
        ELSE ""

IsMissingValue(value) ==
    \/ value = None
    \/ value.kind = "str" /\ StripText(value.v) = ""
    \/ value.kind = "list" /\ value.items = <<>>
    \/ value.kind = "dict" /\ DOMAIN value.fields = {}

\* A parameter definition of a retrieval method.  options and items_options
\* are sets of texts, empty when the schema has none.
ParamDef(key, type, options, items_options, required) ==
    [key |-> key, type |-> type, options |-> options, items_options |-> items_options,
     required |-> required, has_default |-> FALSE, default |-> None]

ParamDefWithDefault(key, type, required, default) ==
    [key |-> key, type |-> type, options |-> {}, items_options |-> {},
     required |-> required, has_default |-> TRUE, default |-> default]

\* isinstance(value, dict): bindings are dictionaries too.
IsDictionary(value) == value.kind \in {"dict", "var", "period"}

ValidateParameterType(param_def, value, allow_variable_bindings) ==
    LET expected_type == LowerText(param_def.type)
        key == param_def.key
    IN  IF allow_variable_bindings /\ IsVariableBinding(value) THEN ""
        ELSE IF allow_variable_bindings /\ IsPeriodBinding(value)
        THEN ValidatePeriodBindingForType(expected_type, value)
        ELSE IF expected_type = "string"
        THEN IF value.kind # "str" THEN "Parameter '" \o key \o "' must be a string" ELSE ""
        ELSE IF expected_type = "enum"
        THEN IF value.kind # "str" \/ (param_def.options # {} /\ value.v \notin param_def.options)
             THEN "Parameter '" \o key \o "' must be one of the options"
             ELSE ""
        ELSE IF expected_type = "integer"
        THEN IF value.kind # "int" THEN "Parameter '" \o key \o "' must be an integer" ELSE ""
        ELSE IF expected_type = "number"
        THEN IF value.kind # "int" THEN "Parameter '" \o key \o "' must be a number" ELSE ""
        ELSE IF expected_type = "boolean"
        THEN IF value.kind # "bool" THEN "Parameter '" \o key \o "' must be a boolean" ELSE ""
        ELSE IF expected_type = "array"
        THEN IF value.kind # "list" THEN "Parameter '" \o key \o "' must be an array"
             ELSE IF param_def.items_options # {}
                     /\ \E n \in DOMAIN value.items :
                           ~(value.items[n].kind = "str"
                             /\ value.items[n].v \in param_def.items_options)
             THEN "Parameter '" \o key \o "' has invalid items"
             ELSE ""
        ELSE IF expected_type = "object"
        THEN IF ~IsDictionary(value) THEN "Parameter '" \o key \o "' must be an object" ELSE ""
        ELSE ""


(***************************************************************************)
(* SpecParamType: _validate_parameter_type on one parameter definition of  *)
(* each declared type and one value.                                       *)
(***************************************************************************)
BankOptions == {"RY", "TD", "BMO"}

\* "date" is a type the validator does not know; "Integer" is spelled with
\* a capital.
TypedParamDefs ==
    { ParamDef("p", "string", {}, {}, TRUE),
      ParamDef("p", "enum", BankOptions, {}, TRUE),
      ParamDef("p", "enum", Range(ValidFiscalQuarters), {}, TRUE),
      ParamDef("p", "integer", {}, {}, TRUE),
      ParamDef("p", "Integer", {}, {}, TRUE),
      ParamDef("p", "number", {}, {}, TRUE),
      ParamDef("p", "boolean", {}, {}, FALSE),
      ParamDef("p", "array", {}, BankOptions, TRUE),
      ParamDef("p", "array", {}, {}, FALSE),
      ParamDef("p", "object", {}, {}, FALSE),
      ParamDef("p", "date", {}, {}, FALSE) }

TypedValues ==
    { None, IntValue(2025), StrValue("RY"), StrValue("Q1"), BoolValue(TRUE),
      ListValue(<<>>), ListValue(<<StrValue("RY"), StrValue("TD")>>),
      ListValue(<<StrValue("RY"), VarBinding("m")>>),
      DictValue([fiscal_year |-> IntValue(2025)]),
      VarBinding("m"), VarBinding(" m "), VarBindingWithDefault("m", StrValue("RY")),
      PeriodBinding("next_quarter", None),
      PeriodBinding(" yoy ", None),
      PeriodBinding("trailing_quarters", IntValue(0)),
      PeriodBinding("trailing_quarters", IntValue(2)),
      PeriodBinding("trailing_quarters", None),
      PeriodBinding("current.fiscal_year", BoolValue(TRUE)) }
    \cup {PeriodBinding(selector, None) : selector \in ObjectSelectors \cup YearSelectors \cup QuarterSelectors}

ParamTypeInit ==
    /\ fnIn \in [op : {"validate_parameter_type"},
                 param_def : TypedParamDefs,
                 value : TypedValues,
                 allow_variable_bindings : BOOLEAN]
    /\ fnOut = IdleFn
    /\ TopoDepsIdle
    /\ OrchestratorIdle

ValidateParameterTypeCall ==
    /\ fnOut = IdleFn
    /\ fnOut' = [op |-> "validate_parameter_type",
                 error |-> ValidateParameterType(fnIn.param_def, fnIn.value,
                                                 fnIn.allow_variable_bindings)]
    /\ UNCHANGED fnIn
    /\ UNCHANGED <<graphVars, orchVars>>

ParamTypeNext == ValidateParameterTypeCall

SpecParamType == ParamTypeInit /\ [][ParamTypeNext]_vars

(***************************************************************************)
(* C18  With allow_variable_bindings a VariableBinding is accepted for     *)
(* every declared type.  A PeriodBinding is accepted exactly when its      *)
(* $count, if given, is a positive integer and the shape its selector      *)
(* yields suits the declared type: an object for object, an integer for    *)
(* integer and number, a string for string and enum, an array for array;   *)
(* no other declared type takes a PeriodBinding.  The call has no run      *)
(* inputs, so no anchor takes part.                                        *)
(***************************************************************************)
ParamTypeCallDone == fnIn.op = "validate_parameter_type" /\ fnOut # IdleFn

ShapeOfSelector(selector) ==
    IF selector \in {"current", "last_quarter", "qoq", "yoy"} THEN "object"
    ELSE IF selector \in {"current.fiscal_year", "last_quarter.fiscal_year",
                          "qoq.fiscal_year", "yoy.fiscal_year"} THEN "integer"
    ELSE IF selector \in {"current.fiscal_quarter", "last_quarter.fiscal_quarter",
                          "qoq.fiscal_quarter", "yoy.fiscal_quarter"} THEN "string"
    ELSE IF selector = "trailing_quarters" THEN "array"
    ELSE "unknown"

ShapeSuitsType(shape, type) ==
    \/ shape = "object" /\ type = "object"
    \/ shape = "integer" /\ type \in {"integer", "number"}
    \/ shape = "string" /\ type \in {"string", "enum"}
    \/ shape = "array" /\ type = "array"

C18_BindingsInValidation ==
    (ParamTypeCallDone /\ fnIn.allow_variable_bindings) =>
        /\ fnIn.value.kind = "var" => fnOut.error = ""
        /\ fnIn.value.kind = "period" =>
              (fnOut.error = "" <=>
                  /\ ShapeSuitsType(ShapeOfSelector(StripText(fnIn.value.selector)),
                                    LowerText(fnIn.param_def.type))
                  /\ fnIn.value.count = None
                     \/ (fnIn.value.count.kind = "int" /\ fnIn.value.count.v >= 1))

\* A selector that yields a string, for an integer parameter: rejected.
C18_Witness ==
    /\ ParamTypeCallDone
    /\ fnIn.allow_variable_bindings
    /\ fnIn.value = PeriodBinding("current.fiscal_quarter", None)
    /\ fnIn.param_def.type = "integer"
    /\ fnOut.error # ""


(***************************************************************************)
(* The registry (table data_source_registry): source id -> method id ->    *)
(* parameter definitions.  compare_banks and trend are rows of the seed;   *)
(* ranking has schema defaults, one of them blank.                         *)
(***************************************************************************)
Registry ==
    [financials |->
        [compare_banks |->
            << ParamDef("bank_ids", "array", {}, BankOptions, TRUE),
               ParamDef("fiscal_year", "integer", {}, {}, TRUE),
               ParamDef("fiscal_quarter", "enum", Range(ValidFiscalQuarters), {}, TRUE),
               ParamDef("metrics", "array", {}, {}, FALSE) >>],
     stock_prices |->
        [trend |->
            << ParamDef("bank_id", "enum", BankOptions, {}, TRUE),
               ParamDef("periods", "array", {}, {}, TRUE) >>,
         ranking |->
            << ParamDefWithDefault("limit", "integer", TRUE, IntValue(4)),
               ParamDefWithDefault("label", "string", TRUE, StrValue("")) >>]]

\* dict.get(key)
Get(dict, key) == IF dict.kind = "dict" /\ key \in DOMAIN dict.fields THEN dict.fields[key] ELSE None

\* not value, for the values an id can have
Falsy(value) == value = None \/ (value.kind = "str" /\ value.v = "")

\* Errors are texts; the prefix "inputs[i]: " of validate_data_source_config
\* is kept as the field input_index (NoIndex when the text has no prefix).
NoIndex == -1

ConfigError(text) == [input_index |-> NoIndex, text |-> text]

InputError(input_index, text) == [input_index |-> input_index, text |-> text]

DefinitionsByKey(parameter_defs) ==
    [key \in {parameter_defs[n].key : n \in DOMAIN parameter_defs} |->
        parameter_defs[CHOOSE n \in DOMAIN parameter_defs : parameter_defs[n].key = key]]

\* Defaults of the schema for the keys that were not provided.
ApplyDefaults(definitions_by_key, provided) ==
    LET defaulted == {key \in DOMAIN definitions_by_key :
                         key \notin DOMAIN provided /\ definitions_by_key[key].has_default}
    IN  [key \in DOMAIN provided \cup defaulted |->
            IF key \in DOMAIN provided THEN provided[key]
            ELSE definitions_by_key[key].default]

\* Mutant: a required parameter only has to be a key of the parameters.
RequiredErrorsKeyOnly(parameter_defs, normalized_parameters) ==
    LET missing == SelectSeq(parameter_defs,
                       LAMBDA d : d.required /\ d.key \notin DOMAIN normalized_parameters)
    IN  [n \in DOMAIN missing |-> "Required parameter '" \o missing[n].key \o "' is missing"]

RequiredErrors(parameter_defs, normalized_parameters) ==
    LET missing == SelectSeq(parameter_defs,
                       LAMBDA d : d.required
                                  /\ IsMissingValue(IF d.key \in DOMAIN normalized_parameters
                                                    THEN normalized_parameters[d.key]
                                                    ELSE None))
    IN  [n \in DOMAIN missing |-> "Required parameter '" \o missing[n].key \o "' is missing"]

\* The loop over normalized_parameters.items(); the keys are visited in one
\* fixed order.
ParameterErrors(definitions_by_key, normalized_parameters, method_id, allow_variable_bindings) ==
    LET keys == SetToSeqAny(DOMAIN normalized_parameters)
        error_of(key) ==
            IF key \notin DOMAIN definitions_by_key
            THEN "Unknown parameter '" \o key \o "' for method '" \o method_id \o "'"
            ELSE ValidateParameterType(definitions_by_key[key], normalized_parameters[key],
                                       allow_variable_bindings)
    IN  SelectSeq([n \in DOMAIN keys |-> error_of(keys[n])], LAMBDA e : e # "")

ValidateSingleDataInputConfig(data_input_config, allow_variable_bindings) ==
    LET source_id == Get(data_input_config, "source_id")
        method_id == Get(data_input_config, "method_id")
        id_errors == (IF Falsy(source_id) THEN <<"Data input is missing source_id">> ELSE <<>>)
                     \o (IF Falsy(method_id) THEN <<"Data input is missing method_id">> ELSE <<>>)
        provided_parameters == Get(data_input_config, "parameters")
    IN  IF id_errors # <<>>
        THEN [errors |-> id_errors, normalized_config |-> data_input_config]
        ELSE IF source_id.v \notin DOMAIN Registry
        THEN [errors |-> <<"Data source not found: " \o source_id.v>>,
              normalized_config |-> data_input_config]
        ELSE IF method_id.v \notin DOMAIN Registry[source_id.v]
        THEN [errors |-> <<"Method '" \o method_id.v \o "' is not valid for data source '"
                             \o source_id.v \o "'">>,
              normalized_config |-> data_input_config]
        ELSE IF provided_parameters # None /\ ~IsDictionary(provided_parameters)
        THEN [errors |-> <<"data input parameters must be an object">>,
              normalized_config |-> data_input_config]
        ELSE LET parameter_defs == Registry[source_id.v][method_id.v]
                 definitions_by_key == DefinitionsByKey(parameter_defs)
                 provided == IF provided_parameters = None THEN <<>>
                             ELSE provided_parameters.fields
                 normalized_parameters == ApplyDefaults(definitions_by_key, provided)
                 identity == [source_id |-> source_id, method_id |-> method_id]
             IN  [errors |->
                      RequiredErrors(parameter_defs, normalized_parameters)
                      \o ParameterErrors(definitions_by_key, normalized_parameters,
                                         method_id.v, allow_variable_bindings),
                  normalized_config |->
                      IF DOMAIN normalized_parameters = {}
                      THEN DictValue(identity)
                      ELSE DictValue([key \in {"source_id", "method_id", "parameters"} |->
                                         IF key = "parameters"
                                         THEN DictValue(normalized_parameters)
                                         ELSE identity[key]])]

\* validate_data_source_config for configurations without "dependencies" and
\* "visualization" (their checks add nothing for an absent key).
ValidateDataSourceConfig(data_source_config, allow_variable_bindings) ==
    IF data_source_config.kind # "dict"
    THEN [valid |-> FALSE,
          errors |-> <<ConfigError("Data source configuration must be an object")>>,
          normalized_config |-> data_source_config]
    ELSE IF Get(data_source_config, "inputs").kind # "list"
    THEN [valid |-> FALSE,
          errors |-> <<ConfigError("Data source configuration must include an 'inputs' array")>>,
          normalized_config |-> data_source_config]
    ELSE IF Get(data_source_config, "inputs").items = <<>>
    THEN [valid |-> FALSE,
          errors |-> <<ConfigError("Data source configuration 'inputs' cannot be empty")>>,
          normalized_config |-> data_source_config]
    ELSE LET raw_inputs == Get(data_source_config, "inputs").items
             checked == [n \in DOMAIN raw_inputs |->
                            IF ~IsDictionary(raw_inputs[n])
                            THEN [errors |-> <<"must be an object">>,
                                  normalized_config |-> raw_inputs[n]]
                            ELSE ValidateSingleDataInputConfig(raw_inputs[n],
                                                               allow_variable_bindings)]
             errors == Concat([n \in DOMAIN checked |->
                                  [e \in DOMAIN checked[n].errors |->
                                      InputError(n - 1, checked[n].errors[e])]])
             accepted == SelectSeq(checked, LAMBDA c : c.errors = <<>>)
             normalized_inputs == [n \in DOMAIN accepted |-> accepted[n].normalized_config]
         IN  [valid |-> errors = <<>>,
              errors |-> errors,
              normalized_config |-> DictValue([inputs |-> ListValue(normalized_inputs)])]


(***************************************************************************)
(* SpecValidate: validate_data_source_config on stored configurations.     *)
(***************************************************************************)
DataInput(source_id, method_id, parameters) ==
    DictValue([source_id |-> StrValue(source_id), method_id |-> StrValue(method_id),
               parameters |-> DictValue(parameters)])

Banks == ListValue(<<StrValue("RY"), StrValue("TD")>>)

CompareBanks(parameters) == DataInput("financials", "compare_banks", parameters)

InputCases ==
    { \* literals of the right types
      CompareBanks([bank_ids |-> Banks, fiscal_year |-> IntValue(2025),
                    fiscal_quarter |-> StrValue("Q1")]),
      \* bindings
      CompareBanks([bank_ids |-> Banks, fiscal_year |-> VarBinding("m"),
                    fiscal_quarter |-> PeriodBinding("current.fiscal_quarter", None)]),
      \* no source_id
      DictValue([method_id |-> StrValue("compare_banks")]),
      \* a source and a method the registry does not have
      DataInput("weather", "by_day", <<>>),
      DataInput("financials", "by_day", <<>>),
      \* a key the method does not declare
      CompareBanks([bank_ids |-> Banks, fiscal_year |-> IntValue(2025),
                    fiscal_quarter |-> StrValue("Q1"), region |-> StrValue("CA")]),
      \* required parameters absent, null, blank, empty
      CompareBanks([bank_ids |-> Banks, fiscal_quarter |-> StrValue("Q1")]),
      CompareBanks([bank_ids |-> Banks, fiscal_year |-> None,
                    fiscal_quarter |-> StrValue("Q1")]),
      CompareBanks([bank_ids |-> ListValue(<<>>), fiscal_year |-> IntValue(2025),
                    fiscal_quarter |-> StrValue("  ")]),
      \* schema defaults: limit gets 4; label gets "" unless it is given
      DataInput("stock_prices", "ranking", [label |-> StrValue("top")]),
      DictValue([source_id |-> StrValue("stock_prices"), method_id |-> StrValue("ranking")]),
      \* a wrong type, parameters that are no object, an input that is no object
      CompareBanks([bank_ids |-> Banks, fiscal_year |-> StrValue("2025"),
                    fiscal_quarter |-> StrValue("Q1")]),
      DictValue([source_id |-> StrValue("financials"), method_id |-> StrValue("compare_banks"),
                 parameters |-> Banks]),
      StrValue("financials") }

ConfigOf(inputs) == DictValue([inputs |-> ListValue(inputs)])

ValidateConfigs ==
    { None, Banks, DictValue(<<>>), DictValue([inputs |-> StrValue("financials")]),
      ConfigOf(<<>>) }
    \cup {ConfigOf(<<i>>) : i \in InputCases}
    \cup {ConfigOf(<<i, j>>) : i, j \in InputCases}

ValidateInit ==
    /\ fnIn \in [op : {"validate_data_source_config"},
                 config : ValidateConfigs,
                 allow_variable_bindings : BOOLEAN]
    /\ fnOut = IdleFn
    /\ TopoDepsIdle
    /\ OrchestratorIdle

ValidateDataSourceConfigCall ==
    /\ fnOut = IdleFn
    /\ LET r == ValidateDataSourceConfig(fnIn.config, fnIn.allow_variable_bindings)
       IN  fnOut' = [op |-> "validate_data_source_config", valid |-> r.valid,
                     errors |-> r.errors, normalized_config |-> r.normalized_config]
    /\ UNCHANGED fnIn
    /\ UNCHANGED <<graphVars, orchVars>>

ValidateNext == ValidateDataSourceConfigCall

SpecValidate == ValidateInit /\ [][ValidateNext]_vars

(***************************************************************************)
(* C19  validate_data_source_config returns valid only if the inputs list  *)
(* is not empty and every input names a source and a method of the         *)
(* registry, provides only keys the method declares, and has a non-empty   *)
(* value for every required parameter once the schema defaults stand in    *)
(* for the absent keys.  An input that breaks one of these makes the       *)
(* result invalid with an error that carries the index of that input; an   *)
(* empty inputs list makes it invalid too (there is no input to name).     *)
(***************************************************************************)
ValidateCallDone == fnIn.op = "validate_data_source_config" /\ fnOut # IdleFn

HasInputs(config) ==
    /\ config.kind = "dict"
    /\ "inputs" \in DOMAIN config.fields
    /\ config.fields.inputs.kind = "list"

NamesRegistryMethod(input) ==
    /\ input.kind = "dict"
    /\ {"source_id", "method_id"} \subseteq DOMAIN input.fields
    /\ input.fields.source_id.kind = "str"
    /\ input.fields.method_id.kind = "str"
    /\ input.fields.source_id.v \in DOMAIN Registry
    /\ input.fields.method_id.v \in DOMAIN Registry[input.fields.source_id.v]

DeclaredDefs(input) == Registry[input.fields.source_id.v][input.fields.method_id.v]

ProvidedParameters(input) ==
    IF "parameters" \in DOMAIN input.fields /\ input.fields.parameters.kind = "dict"
    THEN input.fields.parameters.fields
    ELSE <<>>

\* The value a parameter has for the method: the provided one, else the
\* schema default, else nothing.
EffectiveValue(input, d) ==
    IF d.key \in DOMAIN ProvidedParameters(input) THEN ProvidedParameters(input)[d.key]
    ELSE IF d.has_default THEN d.default
    ELSE None

NonEmpty(value) ==
    /\ value # None
    /\ value.kind = "str" => value.v \notin {"", "  "}
    /\ value.kind = "list" => Len(value.items) > 0
    /\ value.kind = "dict" => DOMAIN value.fields # {}

InputInOrder(input) ==
    /\ NamesRegistryMethod(input)
    /\ \A key \in DOMAIN ProvidedParameters(input) :
          \E n \in DOMAIN DeclaredDefs(input) : DeclaredDefs(input)[n].key = key
    /\ \A n \in DOMAIN DeclaredDefs(input) :
          DeclaredDefs(input)[n].required => NonEmpty(EffectiveValue(input, DeclaredDefs(input)[n]))

C19_ValidOnlyIfInputsInOrder ==
    ValidateCallDone =>
        /\ fnOut.valid =>
              /\ HasInputs(fnIn.config)
              /\ fnIn.config.fields.inputs.items # <<>>
              /\ \A n \in DOMAIN fnIn.config.fields.inputs.items :
                    InputInOrder(fnIn.config.fields.inputs.items[n])
        /\ HasInputs(fnIn.config) =>
              /\ fnIn.config.fields.inputs.items = <<>> => ~fnOut.valid
              /\ \A n \in DOMAIN fnIn.config.fields.inputs.items :
                    ~InputInOrder(fnIn.config.fields.inputs.items[n]) =>
                        /\ ~fnOut.valid
                        /\ \E e \in DOMAIN fnOut.errors : fnOut.errors[e].input_index = n - 1

\* Two inputs: the first is in order, the second relies on the blank default
\* of a required parameter; the result is invalid and names inputs[1] only.
C19_Witness ==
    /\ ValidateCallDone
    /\ HasInputs(fnIn.config)
    /\ Len(fnIn.config.fields.inputs.items) = 2
    /\ InputInOrder(fnIn.config.fields.inputs.items[1])
    /\ fnIn.config.fields.inputs.items[2] =
          DictValue([source_id |-> StrValue("stock_prices"), method_id |-> StrValue("ranking")])
    /\ ~fnOut.valid
    /\ {fnOut.errors[e].input_index : e \in DOMAIN fnOut.errors} = {1}


(***************************************************************************)
(* _resolve_bindings.  The result is the resolved value with what the call *)
(* added to missing_vars (a set) and to resolution_errors (a list).        *)
(***************************************************************************)
Resolution(value, missing, errors) == [value |-> value, missing |-> missing, errors |-> errors]

PeriodAnchorYearKey == "period_fiscal_year"
PeriodAnchorQuarterKey == "period_fiscal_quarter"

GetSectionPeriodAnchorYearKey(section_id) == "section_" \o section_id \o "_" \o PeriodAnchorYearKey
GetSectionPeriodAnchorQuarterKey(section_id) == "section_" \o section_id \o "_" \o PeriodAnchorQuarterKey

\* No section: None or "" (both are falsy).
NoSection == ""

CandidateYearKeys(section_id) ==
    IF section_id # NoSection
    THEN <<GetSectionPeriodAnchorYearKey(section_id), PeriodAnchorYearKey>>
    ELSE <<PeriodAnchorYearKey>>

CandidateQuarterKeys(section_id) ==
    IF section_id # NoSection
    THEN <<GetSectionPeriodAnchorQuarterKey(section_id), PeriodAnchorQuarterKey>>
    ELSE <<PeriodAnchorQuarterKey>>

\* next((key for key in candidates if key in run_inputs), candidates[0])
KeyUsed(candidates, run_inputs) ==
    LET present == SelectSeq(candidates, LAMBDA key : key \in DOMAIN run_inputs)
    IN  IF present # <<>> THEN present[1] ELSE candidates[1]

RawAnchor(key_used, run_inputs) ==
    IF key_used \in DOMAIN run_inputs THEN run_inputs[key_used] ELSE None

\* Mutant: the default is taken before the run input is looked at.
ResolveVariableDefaultFirst(value, run_inputs) ==
    LET var_name == GetVariableName(value)
    IN  IF value.has_default THEN Resolution(value.default, {}, <<>>)
        ELSE IF var_name \in DOMAIN run_inputs THEN Resolution(run_inputs[var_name], {}, <<>>)
        ELSE Resolution(value, {var_name}, <<>>)

ResolveVariable(value, run_inputs) ==
    LET var_name == GetVariableName(value)
    IN  IF var_name \in DOMAIN run_inputs THEN Resolution(run_inputs[var_name], {}, <<>>)
        ELSE IF value.has_default THEN Resolution(value.default, {}, <<>>)
        ELSE Resolution(value, {var_name}, <<>>)

\* Mutant: when one anchor is absent, the keys of both are recorded.
MissingAnchorKeysBoth(raw_year, raw_quarter, year_keys, quarter_keys) ==
    IF raw_year = None \/ raw_quarter = None THEN {year_keys[1], quarter_keys[1]} ELSE {}

MissingAnchorKeys(raw_year, raw_quarter, year_keys, quarter_keys) ==
    (IF raw_year = None THEN {year_keys[1]} ELSE {})
    \cup (IF raw_quarter = None THEN {quarter_keys[1]} ELSE {})

ResolvePeriodBinding(value, run_inputs, section_id) ==
    LET selector == GetPeriodSelector(value)
        candidate_year_keys == CandidateYearKeys(section_id)
        candidate_quarter_keys == CandidateQuarterKeys(section_id)
        year_key_used == KeyUsed(candidate_year_keys, run_inputs)
        quarter_key_used == KeyUsed(candidate_quarter_keys, run_inputs)
        raw_year == RawAnchor(year_key_used, run_inputs)
        raw_quarter == RawAnchor(quarter_key_used, run_inputs)
        anchor_year == ParseInt(raw_year)
        anchor_quarter == NormalizePeriodQuarter(raw_quarter)
        resolved == ResolvePeriodSelector(selector, anchor_year.value, anchor_quarter,
                                          value.count)
    IN  IF raw_year = None \/ raw_quarter = None
        THEN Resolution(value,
                        MissingAnchorKeys(raw_year, raw_quarter, candidate_year_keys,
                                          candidate_quarter_keys),
                        <<>>)
        ELSE IF anchor_year.raised
        THEN Resolution(value, {}, <<"Run input '" \o year_key_used \o "' must be an integer">>)
        ELSE IF anchor_quarter = ""
        THEN Resolution(value, {},
                        <<"Run input '" \o quarter_key_used \o "' must be one of Q1, Q2, Q3, Q4">>)
        ELSE IF BadCount(value.count)
        THEN Resolution(value, {}, <<"Period binding '$count' must be a positive integer">>)
        ELSE IF resolved.raised
        THEN Resolution(value, {}, <<resolved.error \o " '" \o selector \o "'">>)
        ELSE Resolution(resolved.value, {}, <<>>)

RECURSIVE SeqOfSet(_)
SeqOfSet(S) == IF S = {} THEN <<>> ELSE LET x == CHOOSE x \in S : TRUE IN <<x>> \o SeqOfSet(S \ {x})

\* A substituted run input or default is returned as it is: the walk does
\* not enter it.  The items of a dictionary are visited in one fixed order.
RECURSIVE ResolveBindings(_, _, _)
ResolveBindings(value, run_inputs, section_id) ==
    IF IsVariableBinding(value) THEN ResolveVariable(value, run_inputs)
    ELSE IF IsPeriodBinding(value) THEN ResolvePeriodBinding(value, run_inputs, section_id)
    ELSE IF value.kind = "list"
    THEN LET rs == [n \in DOMAIN value.items |->
                       ResolveBindings(value.items[n], run_inputs, section_id)]
         IN  Resolution(ListValue([n \in DOMAIN rs |-> rs[n].value]),
                        UNION {rs[n].missing : n \in DOMAIN rs},
                        Concat([n \in DOMAIN rs |-> rs[n].errors]))
    ELSE IF value.kind = "dict"
    THEN LET rs == [key \in DOMAIN value.fields |->
                       ResolveBindings(value.fields[key], run_inputs, section_id)]
             keys == SeqOfSet(DOMAIN value.fields)
         IN  Resolution(DictValue([key \in DOMAIN rs |-> rs[key].value]),
                        UNION {rs[key].missing : key \in DOMAIN rs},
                        Concat([n \in DOMAIN keys |-> rs[keys[n]].errors]))
    ELSE Resolution(value, {}, <<>>)

(***************************************************************************)
(* resolve_data_source_config on JSON values: validation with bindings     *)
(* allowed, _resolve_bindings on the normalized configuration, validation  *)
(* of the result without bindings.  missing_variables is kept as a set.    *)
(***************************************************************************)
MissingRunInput(name) == "Missing run input '" \o name \o "'"

\* F at the value of v, with v computed once.
Once(F(_), v) == CHOOSE y \in {F(x) : x \in {v}} : TRUE

\* After _resolve_bindings: the errors, the missing inputs, or the second
\* validation.
ResolvedResult(resolved) ==
    LET names == SeqOfSet(resolved.missing)
    IN  IF resolved.errors # <<>>
        THEN [valid |-> FALSE,
              errors |-> [n \in DOMAIN resolved.errors |-> ConfigError(resolved.errors[n])],
              resolved_config |-> resolved.value, missing_variables |-> resolved.missing]
        ELSE IF resolved.missing # {}
        THEN [valid |-> FALSE,
              errors |-> [n \in DOMAIN names |-> ConfigError(MissingRunInput(names[n]))],
              resolved_config |-> resolved.value, missing_variables |-> resolved.missing]
        ELSE Once(LAMBDA resolved_validation :
                      [valid |-> resolved_validation.valid,
                       errors |-> resolved_validation.errors,
                       resolved_config |-> resolved_validation.normalized_config,
                       missing_variables |-> {}],
                  ValidateDataSourceConfig(resolved.value, FALSE))

ResolveConfigValue(data_source_config, run_inputs, section_id) ==
    Once(LAMBDA validation :
             IF ~validation.valid
             THEN [valid |-> FALSE, errors |-> validation.errors,
                   resolved_config |-> data_source_config, missing_variables |-> {}]
             ELSE Once(ResolvedResult,
                       ResolveBindings(validation.normalized_config, run_inputs, section_id)),
         ValidateDataSourceConfig(data_source_config, TRUE))

(***************************************************************************)
(* SpecResolve: a stored configuration with one compare_banks input, a map *)
(* of run inputs and a section id; _resolve_bindings on the configuration  *)
(* and resolve_data_source_config.                                         *)
(***************************************************************************)
YearValues ==
    { IntValue(2025), VarBinding("m"), VarBinding(" m "),
      VarBindingWithDefault("m", IntValue(2024)),
      PeriodBinding("yoy.fiscal_year", None) }

QuarterValues == { StrValue("Q1"), PeriodBinding("current.fiscal_quarter", None) }

\* Values of metrics, an array whose items the schema gives no options for:
\* bindings one and two levels down, a default that is itself a binding, a
\* selector nobody knows, a $count of 0.
MetricsValues ==
    { ListValue(<<StrValue("roe")>>),
      ListValue(<<VarBinding("x")>>),
      ListValue(<<VarBindingWithDefault("x", VarBinding("m"))>>),
      ListValue(<<DictValue([period |-> PeriodBinding("qoq", None)])>>),
      ListValue(<<PeriodBinding("next_quarter", None)>>),
      ListValue(<<PeriodBinding("trailing_quarters", IntValue(0))>>) }

ResolveConfigs ==
    {ConfigOf(<<CompareBanks([bank_ids |-> Banks, fiscal_year |-> y,
                              fiscal_quarter |-> q, metrics |-> m])>>) :
        y \in YearValues, q \in QuarterValues, m \in MetricsValues}

VariableInputs ==
    { EmptyInputs,
      [k \in {"m"} |-> IntValue(2023)],
      [k \in {"m", "x"} |-> IF k = "m" THEN StrValue("RY") ELSE StrValue("roe")] }

SectionIds == {NoSection, "s1"}

YearKey1 == GetSectionPeriodAnchorYearKey("s1")
QuarterKey1 == GetSectionPeriodAnchorQuarterKey("s1")

AnchorsOf(year_key, year, quarter_key, quarter) ==
    [k \in {year_key, quarter_key} |-> IF k = year_key THEN year ELSE quarter]

AnchorInputs ==
    { EmptyInputs,
      [k \in {PeriodAnchorYearKey} |-> IntValue(2025)],
      [k \in {PeriodAnchorQuarterKey} |-> StrValue("Q1")],
      AnchorsOf(PeriodAnchorYearKey, IntValue(2025), PeriodAnchorQuarterKey, StrValue("Q1")),
      AnchorsOf(PeriodAnchorYearKey, StrValue(" 2024 "), PeriodAnchorQuarterKey, StrValue(" q1 ")),
      AnchorsOf(PeriodAnchorYearKey, StrValue("abc"), PeriodAnchorQuarterKey, StrValue("Q1")),
      AnchorsOf(PeriodAnchorYearKey, IntValue(2025), PeriodAnchorQuarterKey, StrValue("q5")),
      AnchorsOf(PeriodAnchorYearKey, None, PeriodAnchorQuarterKey, StrValue("Q1")),
      AnchorsOf(YearKey1, IntValue(2024), PeriodAnchorQuarterKey, StrValue("Q1")),
      AnchorsOf(YearKey1, IntValue(2024), QuarterKey1, StrValue("Q3")),
      AnchorsOf(YearKey1, None, PeriodAnchorYearKey, IntValue(2025)) }

RunInputChoices == {MergeRunInputs(v, a) : v \in VariableInputs, a \in AnchorInputs}

ResolveInit ==
    /\ fnIn \in [op : {"resolve_data_source_config"},
                 config : ResolveConfigs,
                 run_inputs : RunInputChoices,
                 section_id : SectionIds]
    /\ fnOut = [op |-> "none", bindings_done |-> FALSE, config_done |-> FALSE]
    /\ TopoDepsIdle
    /\ OrchestratorIdle

\* _resolve_bindings on the stored configuration.
ResolveBindingsCall ==
    /\ fnIn.op = "resolve_data_source_config"
    /\ ~fnOut.bindings_done
    /\ LET r == ResolveBindings(fnIn.config, fnIn.run_inputs, fnIn.section_id)
       IN  fnOut' = [k \in DOMAIN fnOut \cup {"bindings_done", "value", "missing", "errors"} |->
                        CASE k = "bindings_done" -> TRUE
                          [] k = "value" -> r.value
                          [] k = "missing" -> r.missing
                          [] k = "errors" -> r.errors
                          [] OTHER -> fnOut[k]]
    /\ UNCHANGED fnIn
    /\ UNCHANGED <<graphVars, orchVars>>

ResolveDataSourceConfigCall ==
    /\ fnIn.op = "resolve_data_source_config"
    /\ ~fnOut.config_done
    /\ LET r == ResolveConfigValue(fnIn.config, fnIn.run_inputs, fnIn.section_id)
       IN  fnOut' = [k \in DOMAIN fnOut \cup {"config_done", "result"} |->
                        CASE k = "config_done" -> TRUE
                          [] k = "result" -> r
                          [] OTHER -> fnOut[k]]
    /\ UNCHANGED fnIn
    /\ UNCHANGED <<graphVars, orchVars>>

ResolveNext ==
    \/ ResolveBindingsCall
    \/ ResolveDataSourceConfigCall

SpecResolve == ResolveInit /\ [][ResolveNext]_vars


(***************************************************************************)
(* Claims about binding resolution (SpecResolve).  A path is the list of   *)
(* dictionary keys and list positions (as texts) that leads to a value.    *)
(***************************************************************************)
RECURSIVE BindingPaths(_)
BindingPaths(value) ==
    IF value.kind \in {"var", "period"} THEN {<<>>}
    ELSE IF value.kind = "list"
    THEN UNION {{<<ToString(n)>> \o path : path \in BindingPaths(value.items[n])} :
                   n \in DOMAIN value.items}
    ELSE IF value.kind = "dict"
    THEN UNION {{<<key>> \o path : path \in BindingPaths(value.fields[key])} :
                   key \in DOMAIN value.fields}
    ELSE {}

RECURSIVE ValueAt(_, _)
ValueAt(value, path) ==
    IF path = <<>> THEN value
    ELSE IF value.kind = "list"
    THEN ValueAt(value.items[CHOOSE n \in DOMAIN value.items : ToString(n) = Head(path)],
                 Tail(path))
    ELSE ValueAt(value.fields[Head(path)], Tail(path))

VariablePaths(value) == {path \in BindingPaths(value) : ValueAt(value, path).kind = "var"}

PeriodPaths(value) == {path \in BindingPaths(value) : ValueAt(value, path).kind = "period"}

BindingsCallDone == fnIn.op = "resolve_data_source_config" /\ fnOut.bindings_done

ConfigCallDone == fnIn.op = "resolve_data_source_config" /\ fnOut.config_done

AnchorKeys == {PeriodAnchorYearKey, PeriodAnchorQuarterKey, YearKey1, QuarterKey1}

\* The name of a variable binding without the blanks around it.
NameOf(binding) == IF binding.name = " m " THEN "m" ELSE binding.name

(***************************************************************************)
(* C13  A VariableBinding at any depth: the run input of its name when     *)
(* run_inputs has one (also when the binding has a $default); else its     *)
(* $default when it has one; else the binding stays and its name is        *)
(* reported missing.  No name is reported missing because of a binding     *)
(* that carries a $default.                                                *)
(***************************************************************************)
C13_VariableBindingResolution ==
    BindingsCallDone =>
        /\ \A path \in VariablePaths(fnIn.config) :
              LET binding == ValueAt(fnIn.config, path)
                  out == ValueAt(fnOut.value, path)
              IN  IF NameOf(binding) \in DOMAIN fnIn.run_inputs
                  THEN out = fnIn.run_inputs[NameOf(binding)]
                  ELSE IF binding.has_default
                  THEN out = binding.default
                  ELSE out = binding /\ NameOf(binding) \in fnOut.missing
        /\ \A name \in fnOut.missing \ AnchorKeys :
              \E path \in VariablePaths(fnIn.config) :
                  /\ NameOf(ValueAt(fnIn.config, path)) = name
                  /\ ~ValueAt(fnIn.config, path).has_default
                  /\ name \notin DOMAIN fnIn.run_inputs

\* Three bindings in one configuration: fiscal_year has a default and a run
\* input (the run input wins), the item of metrics has neither x nor a
\* default (reported missing, left in place).
C13_Witness ==
    /\ BindingsCallDone
    /\ Get(Get(fnIn.config, "inputs").items[1], "parameters").fields.fiscal_year
          = VarBindingWithDefault("m", IntValue(2024))
    /\ Get(Get(fnIn.config, "inputs").items[1], "parameters").fields.metrics
          = ListValue(<<VarBinding("x")>>)
    /\ "m" \in DOMAIN fnIn.run_inputs
    /\ Get(Get(fnOut.value, "inputs").items[1], "parameters").fields.fiscal_year = IntValue(2023)
    /\ fnOut.missing = {"x"}


(***************************************************************************)
(* C14  (as stated) A PeriodBinding when the anchor year or the anchor     *)
(* quarter is under none of its candidate keys: a year key and a quarter   *)
(* key are both recorded as missing, the binding is left as it is, and     *)
(* nothing is added to the errors.                                         *)
(***************************************************************************)
KeysAbsent(candidates) == \A n \in DOMAIN candidates : candidates[n] \notin DOMAIN fnIn.run_inputs

YearKeysOfCall == CandidateYearKeys(fnIn.section_id)

QuarterKeysOfCall == CandidateQuarterKeys(fnIn.section_id)

PeriodBindingsStay ==
    \A path \in PeriodPaths(fnIn.config) :
        ValueAt(fnOut.value, path) = ValueAt(fnIn.config, path)

C14_BothKeysRecorded ==
    (/\ BindingsCallDone
     /\ PeriodPaths(fnIn.config) # {}
     /\ KeysAbsent(YearKeysOfCall) \/ KeysAbsent(QuarterKeysOfCall)) =>
        /\ Range(YearKeysOfCall) \cap fnOut.missing # {}
        /\ Range(QuarterKeysOfCall) \cap fnOut.missing # {}
        /\ PeriodBindingsStay
        /\ fnOut.errors = <<>>

(***************************************************************************)
(* C14  (amended) An anchor is absent when none of its candidate keys      *)
(* (the section key first when there is a section id, then the global key) *)
(* is a key of run_inputs, or when the first of them that is a key holds   *)
(* None.  When the year or the quarter is absent, every PeriodBinding is   *)
(* left as it is, nothing is added to the errors, and the anchor keys      *)
(* recorded as missing are exactly the first candidate key of each absent  *)
(* anchor: the key of an anchor that is there is not recorded.             *)
(***************************************************************************)
AnchorAbsent(candidates) ==
    \/ KeysAbsent(candidates)
    \/ \E n \in DOMAIN candidates :
          /\ candidates[n] \in DOMAIN fnIn.run_inputs
          /\ \A k \in 1..(n - 1) : candidates[k] \notin DOMAIN fnIn.run_inputs
          /\ fnIn.run_inputs[candidates[n]] = None

C14_AbsentAnchorsRecorded ==
    (/\ BindingsCallDone
     /\ PeriodPaths(fnIn.config) # {}
     /\ AnchorAbsent(YearKeysOfCall) \/ AnchorAbsent(QuarterKeysOfCall)) =>
        /\ fnOut.missing \cap AnchorKeys =
              (IF AnchorAbsent(YearKeysOfCall) THEN {YearKeysOfCall[1]} ELSE {})
              \cup (IF AnchorAbsent(QuarterKeysOfCall) THEN {QuarterKeysOfCall[1]} ELSE {})
        /\ PeriodBindingsStay
        /\ fnOut.errors = <<>>

\* The year is there, the quarter is not: only the quarter key is missing.
C14_Witness ==
    /\ BindingsCallDone
    /\ PeriodPaths(fnIn.config) # {}
    /\ fnIn.section_id = NoSection
    /\ PeriodAnchorYearKey \in DOMAIN fnIn.run_inputs
    /\ fnIn.run_inputs[PeriodAnchorYearKey] = IntValue(2025)
    /\ KeysAbsent(QuarterKeysOfCall)
    /\ fnOut.missing \cap AnchorKeys = {PeriodAnchorQuarterKey}
    /\ fnOut.errors = <<>>


(***************************************************************************)
(* C15  Both anchors are there, but the year is no integer, or the quarter *)
(* is none of Q1..Q4 (whatever its case and the blanks around it), or a    *)
(* selector is unknown: _resolve_bindings adds an error, records no anchor *)
(* key as missing, and resolve_data_source_config returns valid = false    *)
(* with errors none of which is a "Missing run input" message.             *)
(***************************************************************************)
AnchorRead(candidates) == RawAnchor(KeyUsed(candidates, fnIn.run_inputs), fnIn.run_inputs)

IsIntegerLike(raw) ==
    \/ raw.kind = "int"
    \/ raw.kind = "str" /\ raw.v \in {"2024", "2025", " 2024 "}

IsQuarterLike(raw) ==
    raw.kind = "str" /\ raw.v \in {"Q1", "Q2", "Q3", "Q4", "q1", "q3", " q1 "}

HasUnknownSelector(config) ==
    \E path \in PeriodPaths(config) :
        ValueAt(config, path).selector \notin KnownSelectors \cup {" yoy "}

MalformedPeriodInputs ==
    /\ PeriodPaths(fnIn.config) # {}
    /\ ~AnchorAbsent(YearKeysOfCall)
    /\ ~AnchorAbsent(QuarterKeysOfCall)
    /\ \/ ~IsIntegerLike(AnchorRead(YearKeysOfCall))
       \/ ~IsQuarterLike(AnchorRead(QuarterKeysOfCall))
       \/ HasUnknownSelector(fnIn.config)

MissingMessages ==
    {MissingRunInput(name) : name \in AnchorKeys \cup {"m", "x"}}

C15_MalformedAnchorsAreErrors ==
    MalformedPeriodInputs =>
        /\ BindingsCallDone =>
              /\ fnOut.errors # <<>>
              /\ fnOut.missing \cap AnchorKeys = {}
        /\ ConfigCallDone =>
              /\ ~fnOut.result.valid
              /\ fnOut.result.errors # <<>>
              /\ \A n \in DOMAIN fnOut.result.errors :
                    fnOut.result.errors[n].text \notin MissingMessages
              /\ fnOut.result.missing_variables \cap AnchorKeys = {}

\* The quarter is "q5" and another run input (x) is missing as well: the
\* result carries the error of the quarter and no "Missing run input".
C15_Witness ==
    /\ BindingsCallDone
    /\ ConfigCallDone
    /\ PeriodPaths(fnIn.config) # {}
    /\ AnchorRead(QuarterKeysOfCall) = StrValue("q5")
    /\ fnOut.missing = {"x"}
    /\ ~fnOut.result.valid
    /\ fnOut.result.errors # <<>>


(***************************************************************************)
(* C20  When resolve_data_source_config returns valid = true, no           *)
(* VariableBinding and no PeriodBinding is left at any depth of the        *)
(* parameters of any input of the resolved configuration.                  *)
(***************************************************************************)
ParameterBindingPaths(config) ==
    UNION {BindingPaths(Get(Get(config, "inputs").items[n], "parameters")) :
              n \in DOMAIN Get(config, "inputs").items}

C20_OnlyLiterals ==
    (ConfigCallDone /\ fnOut.result.valid) =>
        ParameterBindingPaths(fnOut.result.resolved_config) = {}


(***************************************************************************)
(* pipeline.py: get_generation_requirements.                               *)
(*                                                                         *)
(* collect_variable_bindings and collect_period_bindings walk a value and  *)
(* stop at a binding; _validate_data_source_config turns a resolution      *)
(* into (error, resolved_config), the error being the errors joined by     *)
(* "; " (kept here as the list of errors).                                 *)
(***************************************************************************)
RECURSIVE CollectVariableBindings(_)
CollectVariableBindings(value) ==
    IF GetVariableName(value) # "" THEN {GetVariableName(value)}
    ELSE IF value.kind = "list"
    THEN UNION {CollectVariableBindings(value.items[n]) : n \in DOMAIN value.items}
    ELSE IF value.kind = "dict"
    THEN UNION {CollectVariableBindings(value.fields[key]) : key \in DOMAIN value.fields}
    ELSE {}

RECURSIVE CollectPeriodBindings(_)
CollectPeriodBindings(value) ==
    IF IsPeriodBinding(value)
    THEN IF GetPeriodSelector(value) # ""
         THEN <<[selector |-> GetPeriodSelector(value), count |-> value.count]>>
         ELSE <<>>
    ELSE IF value.kind = "list"
    THEN Concat([n \in DOMAIN value.items |-> CollectPeriodBindings(value.items[n])])
    ELSE IF value.kind = "dict"
    THEN LET keys == SeqOfSet(DOMAIN value.fields)
         IN  Concat([n \in DOMAIN keys |-> CollectPeriodBindings(value.fields[keys[n]])])
    ELSE <<>>

\* extract_data_input_configs: the inputs that are objects with a source_id
\* and a method_id; parameters are kept when they are a non-empty object.
ExtractDataInputConfigs(data_source_config) ==
    IF data_source_config.kind # "dict" THEN <<>>
    ELSE IF Get(data_source_config, "inputs").kind # "list" THEN <<>>
    ELSE LET raw_inputs == Get(data_source_config, "inputs").items
             named == SelectSeq(raw_inputs,
                          LAMBDA c : /\ IsDictionary(c)
                                     /\ ~Falsy(Get(c, "source_id"))
                                     /\ ~Falsy(Get(c, "method_id")))
         IN  [n \in DOMAIN named |->
                 LET parameters == Get(named[n], "parameters")
                 IN  [source_id |-> Get(named[n], "source_id"),
                      method_id |-> Get(named[n], "method_id"),
                      parameters |-> IF parameters.kind = "dict" /\ DOMAIN parameters.fields # {}
                                     THEN parameters.fields ELSE <<>>]]

\* get_data_source_method_details: "" when the registry has the method.
MethodLookupError(source_id, method_id) ==
    IF source_id.kind # "str" \/ source_id.v \notin DOMAIN Registry
    THEN "Data source not found"
    ELSE IF method_id.kind # "str" \/ method_id.v \notin DOMAIN Registry[source_id.v]
    THEN "Method is not valid for data source"
    ELSE ""

\* _validate_data_source_config
ValidateSubsectionConfig(subsection, run_inputs, section_id) ==
    Once(LAMBDA resolution :
             IF resolution.valid
             THEN [error |-> <<>>, resolved_config |-> resolution.resolved_config]
             ELSE [error |-> IF resolution.errors # <<>> THEN resolution.errors
                             ELSE <<ConfigError("Invalid data source configuration")>>,
                   resolved_config |-> None],
         ResolveConfigValue(subsection.data_source_config, run_inputs, section_id))

\* The names a run input can have in the model.
SortedRunInputNames ==
    << "fy", "m", PeriodAnchorQuarterKey, PeriodAnchorYearKey,
       GetSectionPeriodAnchorQuarterKey("s1"), GetSectionPeriodAnchorYearKey("s1"),
       GetSectionPeriodAnchorQuarterKey("s2"), GetSectionPeriodAnchorYearKey("s2"), "x" >>

RunInputNames == Range(SortedRunInputNames)

\* resolution_error.startswith("Missing run input"): the first error of the
\* joined text is a missing run input (an error of an input starts with
\* "inputs[i]: ").
StartsWithMissingRunInput(error) ==
    /\ error # <<>>
    /\ error[1].input_index = NoIndex
    /\ \E name \in RunInputNames : error[1].text = MissingRunInput(name)

\* One call of add_required_input.
RequiredInputCall(key, input_type, options, subsection_id, parameter_key) ==
    [key |-> key, type |-> input_type, options |-> options,
     subsection_id |-> subsection_id, parameter_key |-> parameter_key]

\* add_required_input: the first use of a key fixes its type and options,
\* every use is appended to used_by.
AddRequiredInput(required_inputs, call) ==
    LET entry == IF call.key \in DOMAIN required_inputs THEN required_inputs[call.key]
                 ELSE [key |-> call.key, type |-> call.type, options |-> call.options,
                       used_by |-> <<>>]
        use == [subsection_id |-> call.subsection_id, parameter_key |-> call.parameter_key]
    IN  [k \in DOMAIN required_inputs \cup {call.key} |->
            IF k = call.key THEN [entry EXCEPT !.used_by = Append(@, use)]
            ELSE required_inputs[k]]

RECURSIVE AddRequiredInputs(_, _)
AddRequiredInputs(required_inputs, calls) ==
    IF calls = <<>> THEN required_inputs
    ELSE AddRequiredInputs(AddRequiredInput(required_inputs, Head(calls)), Tail(calls))

\* The body of "for param_def in parameter_defs" for one definition: the
\* calls of add_required_input it makes, in order.
ScanParameter(param_def, parameters, subsection_id, section_id) ==
    IF param_def.key \notin DOMAIN parameters THEN <<>>
    ELSE LET value == parameters[param_def.key]
             variable_names == SeqOfSet(CollectVariableBindings(value))
             year_input_key == IF section_id # NoSection
                               THEN GetSectionPeriodAnchorYearKey(section_id)
                               ELSE PeriodAnchorYearKey
             quarter_input_key == IF section_id # NoSection
                                  THEN GetSectionPeriodAnchorQuarterKey(section_id)
                                  ELSE PeriodAnchorQuarterKey
         IN  [n \in DOMAIN variable_names |->
                 RequiredInputCall(variable_names[n], LowerText(param_def.type),
                                   param_def.options, subsection_id, param_def.key)]
             \o (IF CollectPeriodBindings(value) = <<>> THEN <<>>
                 ELSE << RequiredInputCall(year_input_key, "integer", {},
                                           subsection_id, param_def.key),
                         RequiredInputCall(quarter_input_key, "enum",
                                           Range(ValidFiscalQuarters),
                                           subsection_id, param_def.key) >>)

\* "for input_config in input_configs": stops at the first input whose
\* method the registry does not have.
RECURSIVE ScanInputs(_, _, _, _)
ScanInputs(calls, input_configs, subsection_id, section_id) ==
    IF input_configs = <<>> THEN [calls |-> calls, lookup_error |-> ""]
    ELSE LET input_config == Head(input_configs)
             lookup_error == MethodLookupError(input_config.source_id, input_config.method_id)
             parameter_defs == Registry[input_config.source_id.v][input_config.method_id.v]
         IN  IF lookup_error # ""
             THEN [calls |-> calls, lookup_error |-> lookup_error]
             ELSE ScanInputs(
                      calls \o Concat([n \in DOMAIN parameter_defs |->
                                          ScanParameter(parameter_defs[n],
                                                        input_config.parameters,
                                                        subsection_id, section_id)]),
                      Tail(input_configs), subsection_id, section_id)

\* What the readiness check learns from one eligible subsection: the reason
\* of its blocking error (<<>> when there is none) and its calls of
\* add_required_input.
\* Mutant: a subsection that lacks run inputs is a blocking error.
CheckSubsectionMissingBlocks(subsection, section_id) ==
    Once(LAMBDA checked : [calls |-> <<>>, blocking |-> checked.error],
         ValidateSubsectionConfig(subsection, EmptyInputs, section_id))

CheckSubsection(subsection, section_id) ==
    Once(LAMBDA checked :
             IF checked.error # <<>> /\ ~StartsWithMissingRunInput(checked.error)
             THEN [calls |-> <<>>, blocking |-> checked.error]
             ELSE LET config == IF checked.resolved_config.kind = "dict"
                                THEN checked.resolved_config
                                ELSE subsection.data_source_config
                      scanned == ScanInputs(<<>>, ExtractDataInputConfigs(config),
                                            subsection.id, section_id)
                  IN  [calls |-> scanned.calls,
                       blocking |-> IF scanned.lookup_error # ""
                                    THEN <<ConfigError(scanned.lookup_error)>>
                                    ELSE <<>>],
         ValidateSubsectionConfig(subsection, EmptyInputs, section_id))

\* The eligible subsections with the id of their section, in the order the
\* two loops visit them.
EligibleWithSection(sections) ==
    Concat([i \in 1..Len(sections) |->
               LET eligible == SelectSeq(sections[i].subsections, IsEligible)
               IN  [n \in DOMAIN eligible |->
                       [subsection |-> eligible[n], section_id |-> sections[i].id]]])

TemplateError(reason, saved_run_inputs) ==
    [ready |-> FALSE, required_inputs |-> <<>>,
     blocking_errors |-> <<[subsection_id |-> "", reason |-> reason]>>,
     subsections_considered |-> 0, saved_run_inputs |-> saved_run_inputs]

\* Mutant: ready whenever nothing blocks.
IsReadyIgnoringInputs(blocking_errors, required_inputs_list) == blocking_errors = <<>>

\* len(blocking_errors) == 0 and len(required_inputs_list) == 0
IsReady(blocking_errors, required_inputs_list) ==
    blocking_errors = <<>> /\ required_inputs_list = <<>>

\* get_generation_requirements, given the check of one subsection and the
\* order sorted() gives the keys.
Requirements(sections, saved_run_inputs, sorted_keys, Check(_, _)) ==
    LET rows == EligibleWithSection(sections)
    IN  IF sections = <<>>
        THEN TemplateError("No sections found in template", saved_run_inputs)
        ELSE IF rows = <<>>
        THEN TemplateError("No eligible subsections found for generation", saved_run_inputs)
        ELSE Once(LAMBDA checked :
                      LET failed == SelectSeq(checked, LAMBDA c : c.blocking # <<>>)
                          blocking_errors ==
                              [n \in DOMAIN failed |->
                                  [subsection_id |-> failed[n].subsection_id,
                                   reason |-> failed[n].blocking]]
                          required_inputs ==
                              AddRequiredInputs(<<>>, Concat([n \in DOMAIN checked |->
                                                                checked[n].calls]))
                          keys == SelectSeq(sorted_keys,
                                            LAMBDA k : k \in DOMAIN required_inputs)
                          required_inputs_list == [n \in DOMAIN keys |-> required_inputs[keys[n]]]
                      IN  [ready |-> IsReady(blocking_errors, required_inputs_list),
                           required_inputs |-> required_inputs_list,
                           blocking_errors |-> blocking_errors,
                           subsections_considered |-> Len(rows),
                           saved_run_inputs |-> saved_run_inputs],
                  [n \in DOMAIN rows |->
                      [subsection_id |-> rows[n].subsection.id]
                      @@ Check(rows[n].subsection, rows[n].section_id)])

GetGenerationRequirements(sections, saved_run_inputs) ==
    Requirements(sections, saved_run_inputs, SortedRunInputNames, CheckSubsection)

(***************************************************************************)
(* SpecRequirements: get_generation_requirements on a template of two      *)
(* sections; section s1 has subsections a and b, section s2 subsection c.  *)
(***************************************************************************)
StoredSubsection(id, section_id, position, eligible, data_source_config) ==
    [id |-> id, section_id |-> section_id, position |-> position, widget_type |-> "text",
     instructions |-> eligible, data_source_config |-> data_source_config]

ReadyConfig ==
    ConfigOf(<<CompareBanks([bank_ids |-> Banks, fiscal_year |-> IntValue(2025),
                             fiscal_quarter |-> StrValue("Q1")])>>)

\* Stored configurations: literals; one variable; a variable with a default;
\* the same with a second variable without one; the variable in two
\* parameters of two inputs; period bindings; failures that are no missing
\* input (a method the registry lacks, a parameter nobody declares, a wrong
\* type, a selector that does not suit the type); no configuration.
RequirementConfigs ==
    { ReadyConfig,
      ConfigOf(<<CompareBanks([bank_ids |-> Banks, fiscal_year |-> VarBinding("fy"),
                               fiscal_quarter |-> StrValue("Q1")])>>),
      ConfigOf(<<CompareBanks([bank_ids |-> Banks,
                               fiscal_year |-> VarBindingWithDefault("fy", IntValue(2024)),
                               fiscal_quarter |-> StrValue("Q1")])>>),
      ConfigOf(<<CompareBanks([bank_ids |-> Banks,
                               fiscal_year |-> VarBindingWithDefault("fy", IntValue(2024)),
                               fiscal_quarter |-> StrValue("Q1"),
                               metrics |-> ListValue(<<VarBinding("m")>>)])>>),
      ConfigOf(<<CompareBanks([bank_ids |-> Banks, fiscal_year |-> VarBinding("fy"),
                               fiscal_quarter |-> StrValue("Q1")]),
                 DataInput("stock_prices", "trend",
                           [bank_id |-> StrValue("RY"),
                            periods |-> ListValue(<<VarBinding("fy"), VarBinding("x")>>)])>>),
      ConfigOf(<<CompareBanks([bank_ids |-> Banks,
                               fiscal_year |-> PeriodBinding("yoy.fiscal_year", None),
                               fiscal_quarter |-> PeriodBinding("current.fiscal_quarter", None)])>>),
      ConfigOf(<<DataInput("financials", "by_day", <<>>)>>),
      ConfigOf(<<CompareBanks([bank_ids |-> Banks, fiscal_year |-> VarBinding("fy"),
                               fiscal_quarter |-> StrValue("Q1"),
                               region |-> VarBinding("x")])>>),
      ConfigOf(<<CompareBanks([bank_ids |-> Banks, fiscal_year |-> StrValue("2025"),
                               fiscal_quarter |-> VarBinding("x")])>>),
      ConfigOf(<<CompareBanks([bank_ids |-> Banks,
                               fiscal_year |-> PeriodBinding("current", None),
                               fiscal_quarter |-> VarBinding("x")])>>),
      None }

RequirementTemplates ==
    { <<>> }
    \cup
    { << [id |-> "s1", position |-> 1,
          subsections |-> << StoredSubsection("a", "s1", 1, TRUE, ca),
                             StoredSubsection("b", "s1", 2, eb, cb) >>],
         [id |-> "s2", position |-> 2,
          subsections |-> << StoredSubsection("c", "s2", 1, ec, ReadyConfig) >>] >> :
        ca \in RequirementConfigs, cb \in RequirementConfigs, eb \in BOOLEAN, ec \in BOOLEAN }
    \cup
    { << [id |-> "s1", position |-> 1,
          subsections |-> << StoredSubsection("a", "s1", 1, FALSE, ReadyConfig) >>] >> }

RequirementsInit ==
    /\ fnIn \in [op : {"get_generation_requirements"}, sections : RequirementTemplates]
    /\ fnOut = IdleFn
    /\ TopoDepsIdle
    /\ OrchestratorIdle

GetGenerationRequirementsCall ==
    /\ fnIn.op = "get_generation_requirements"
    /\ fnOut = IdleFn
    /\ fnOut' = [op |-> "get_generation_requirements",
                 result |-> GetGenerationRequirements(fnIn.sections, EmptyInputs)]
    /\ UNCHANGED fnIn
    /\ UNCHANGED <<graphVars, orchVars>>

RequirementsNext == GetGenerationRequirementsCall

SpecRequirements == RequirementsInit /\ [][RequirementsNext]_vars

(***************************************************************************)
(* Claims about get_generation_requirements (SpecRequirements).            *)
(***************************************************************************)
RequirementsCallDone == fnOut # IdleFn /\ fnOut.op = "get_generation_requirements"

\* The eligible subsections of the call, each with its resolution under
\* empty run inputs.
ResolvedEligible ==
    LET rows == EligibleWithSection(fnIn.sections)
    IN  {[id |-> rows[n].subsection.id,
          section_id |-> rows[n].section_id,
          config |-> rows[n].subsection.data_source_config,
          resolution |-> ResolveConfigValue(rows[n].subsection.data_source_config,
                                            EmptyInputs, rows[n].section_id)] :
            n \in DOMAIN rows}

RequiredKeys ==
    [n \in DOMAIN fnOut.result.required_inputs |-> fnOut.result.required_inputs[n].key]

BlockedIds ==
    {fnOut.result.blocking_errors[n].subsection_id : n \in DOMAIN fnOut.result.blocking_errors}

\* The uses of an entry of required_inputs, as a set.
UsesOf(entry) == Range(entry.used_by)

\* The subsections the used_by lists of the required inputs name.
UsingIds == UNION {{u.subsection_id : u \in UsesOf(e)} : e \in Range(fnOut.result.required_inputs)}

\* The declared parameters of an input whose value holds a variable binding
\* of the name.
InputParametersUsing(input, name) ==
    IF MethodLookupError(input.source_id, input.method_id) # "" THEN {}
    ELSE {d \in Range(Registry[input.source_id.v][input.method_id.v]) :
             /\ d.key \in DOMAIN input.parameters
             /\ name \in CollectVariableBindings(input.parameters[d.key])}

ParametersUsing(config, name) ==
    LET inputs == ExtractDataInputConfigs(config)
    IN  UNION {InputParametersUsing(inputs[n], name) : n \in DOMAIN inputs}

\* C21: required_inputs has each key once; its keys are the run inputs that
\* are missing when the eligible subsections are resolved with empty run
\* inputs (a variable with a $default is not among them); the entry of a
\* variable names in used_by every parameter of a subsection lacking it that
\* uses it, and its type is the declared type of such a parameter; a
\* non-empty list means ready is false.
C21_RequiredInputsAreMissingInputs ==
    RequirementsCallDone =>
        /\ NoDuplicates(RequiredKeys)
        /\ Range(RequiredKeys)
               = UNION {row.resolution.missing_variables : row \in ResolvedEligible}
        /\ \A e \in Range(fnOut.result.required_inputs) :
               \A row \in ResolvedEligible :
                   e.key \in row.resolution.missing_variables =>
                       \A d \in ParametersUsing(row.config, e.key) :
                           [subsection_id |-> row.id, parameter_key |-> d.key] \in UsesOf(e)
        /\ \A e \in Range(fnOut.result.required_inputs) :
               e.key \notin AnchorKeys
                   => \E row \in ResolvedEligible :
                          \E d \in ParametersUsing(row.config, e.key) :
                              e.type = LowerText(d.type)
        /\ fnOut.result.required_inputs # <<>> => ~fnOut.result.ready

\* C22: an eligible subsection whose configuration fails for another reason
\* than a missing run input is in blocking_errors and in no used_by; one
\* that only lacks run inputs is in some used_by and not in blocking_errors;
\* ready holds exactly when an eligible subsection exists and both lists
\* are empty.
FailsOtherwise(resolution) == ~resolution.valid /\ resolution.missing_variables = {}

LacksRunInputsOnly(resolution) ==
    /\ ~resolution.valid
    /\ resolution.missing_variables # {}
    /\ Range(resolution.errors)
           = {ConfigError(MissingRunInput(name)) : name \in resolution.missing_variables}

C22_BlockingApartFromRequired ==
    RequirementsCallDone =>
        /\ \A row \in ResolvedEligible :
               /\ FailsOtherwise(row.resolution)
                      => row.id \in BlockedIds /\ row.id \notin UsingIds
               /\ LacksRunInputsOnly(row.resolution)
                      => row.id \in UsingIds /\ row.id \notin BlockedIds
        /\ fnOut.result.ready
               <=> /\ ResolvedEligible # {}
                   /\ fnOut.result.required_inputs = <<>>
                   /\ fnOut.result.blocking_errors = <<>>

\* One subsection is blocked by a wrong type, the other lacks a run input.
C22_Witness ==
    /\ RequirementsCallDone
    /\ \E blocked, lacking \in ResolvedEligible :
           /\ FailsOtherwise(blocked.resolution)
           /\ LacksRunInputsOnly(lacking.resolution)
           /\ BlockedIds = {blocked.id}
           /\ UsingIds = {lacking.id}
    /\ ~fnOut.result.ready



(***************************************************************************)
(* pipeline.py: _generate_subsection_content, from the text the LLM        *)
(* returns to the (content, title) pair.  json.loads, str.title() and the  *)
(* capital first letter are defined on the texts the model uses.           *)
(***************************************************************************)
JsonLoads(text) ==
    CASE text = "{}" -> Returned(DictValue(<<>>))
      [] text = "{\"title\": \"my title\", \"content\": \" Revenue rose. \"}"
           -> Returned(DictValue([title |-> StrValue("my title"),
                                  content |-> StrValue(" Revenue rose. ")]))
      [] text = "{\"title\": null, \"content\": \"Revenue rose.\"}"
           -> Returned(DictValue([title |-> None, content |-> StrValue("Revenue rose.")]))
      [] text = "{\"content\": \"Revenue rose.\"}"
           -> Returned(DictValue([content |-> StrValue("Revenue rose.")]))
      [] text = "{\"title\": \"my title\"}"
           -> Returned(DictValue([title |-> StrValue("my title")]))
      [] text = "{\"title\": 7, \"content\": \"Revenue rose.\"}"
           -> Returned(DictValue([title |-> IntValue(7), content |-> StrValue("Revenue rose.")]))
      [] text = "{\"title\": \"my title\", \"content\": 5}"
           -> Returned(DictValue([title |-> StrValue("my title"), content |-> IntValue(5)]))
      [] text = "{\"content\": null}"
           -> Returned(DictValue([content |-> None]))
      [] text = "{\"content\": [\"Revenue rose.\"]}"
           -> Returned(DictValue([content |-> ListValue(<<StrValue("Revenue rose.")>>)]))
      [] text = "[1, 2]" -> Returned(ListValue(<<IntValue(1), IntValue(2)>>))
      [] text = "\"Revenue rose.\"" -> Returned(StrValue("Revenue rose."))
      [] text = "12" -> Returned(IntValue(12))
      [] text = "null" -> Returned(None)
      [] OTHER -> Raised("JSONDecodeError")

\* str.title()
TitleText(t) ==
    CASE t = "my title" -> "My Title"
      [] OTHER -> t

\* normalized[0].upper() + normalized[1:]
SentenceText(t) ==
    CASE t = "my title" -> "My title"
      [] OTHER -> t

\* _apply_title_case_mode
ApplyTitleCaseMode(value, mode) ==
    IF value.kind # "str" THEN value
    ELSE LET normalized == StripText(value.v)
         IN  IF normalized = "" THEN StrValue(normalized)
             ELSE IF mode = StrValue("upper") THEN StrValue(UpperText(normalized))
             ELSE IF mode = StrValue("sentence") THEN StrValue(SentenceText(normalized))
             ELSE IF mode = StrValue("title") THEN StrValue(TitleText(normalized))
             ELSE StrValue(normalized)

\* Mutant: the response is used as the content whatever it parses to.
ReadEnvelopeAsText(response_text) ==
    Returned([content |-> StrValue(response_text), title |-> None])

\* The try block: json.loads and the two result.get calls.  Only
\* json.JSONDecodeError is caught; .get on a value that is no dictionary
\* raises AttributeError.
ReadEnvelope(response_text) ==
    LET parsed == JsonLoads(response_text)
    IN  IF parsed.raised
        THEN Returned([content |-> StrValue(response_text), title |-> None])
        ELSE IF parsed.value.kind # "dict"
        THEN Raised("AttributeError: object has no attribute 'get'")
        ELSE Returned([content |-> IF "content" \in DOMAIN parsed.value.fields
                                   THEN parsed.value.fields["content"]
                                   ELSE StrValue(response_text),
                       title |-> Get(parsed.value, "title")])

\* From response.choices[0].message.content to the return statement.
GenerateSubsectionContent(message_content, formatting_profile) ==
    LET response_text == IF Falsy(message_content) THEN "{}" ELSE message_content.v
        envelope == ReadEnvelope(response_text)
    IN  IF envelope.raised THEN envelope
        ELSE LET title == IF envelope.value.title.kind = "str" /\ formatting_profile.kind = "dict"
                          THEN ApplyTitleCaseMode(envelope.value.title,
                                                  Get(formatting_profile, "subsection_title_case"))
                          ELSE envelope.value.title
             IN  IF envelope.value.content.kind # "str"
                 THEN Raised("AttributeError: object has no attribute 'strip'")
                 ELSE Returned([content |-> StripText(envelope.value.content.v),
                                title |-> title])

(***************************************************************************)
(* SpecNarrative: one call of _generate_subsection_content; the LLM        *)
(* collaborator answers with any of the texts below.                       *)
(***************************************************************************)
ResponseTexts ==
    { "Revenue rose.",
      " Revenue rose. ",
      "{\"title\": \"my title\", \"content\":",
      "{}",
      "{\"title\": \"my title\", \"content\": \" Revenue rose. \"}",
      "{\"title\": null, \"content\": \"Revenue rose.\"}",
      "{\"content\": \"Revenue rose.\"}",
      "{\"title\": \"my title\"}",
      "{\"title\": 7, \"content\": \"Revenue rose.\"}",
      "{\"title\": \"my title\", \"content\": 5}",
      "{\"content\": null}",
      "{\"content\": [\"Revenue rose.\"]}",
      "[1, 2]",
      "\"Revenue rose.\"",
      "12",
      "null" }

MessageContents == {None, StrValue("")} \cup {StrValue(t) : t \in ResponseTexts}

FormattingProfiles ==
    {None, DictValue(<<>>)}
    \cup {DictValue([subsection_title_case |-> StrValue(mode)]) :
             mode \in {"upper", "sentence", "title"}}

NarrativeInit ==
    /\ fnIn \in [op : {"_generate_subsection_content"},
                 message_content : MessageContents,
                 formatting_profile : FormattingProfiles]
    /\ fnOut = IdleFn
    /\ TopoDepsIdle
    /\ OrchestratorIdle

GenerateSubsectionContentCall ==
    /\ fnIn.op = "_generate_subsection_content"
    /\ fnOut = IdleFn
    /\ fnOut' = [op |-> "_generate_subsection_content",
                 result |-> GenerateSubsectionContent(fnIn.message_content,
                                                      fnIn.formatting_profile)]
    /\ UNCHANGED fnIn
    /\ UNCHANGED <<graphVars, orchVars>>

NarrativeNext == GenerateSubsectionContentCall

SpecNarrative == NarrativeInit /\ [][NarrativeNext]_vars

NarrativeCallDone == fnOut # IdleFn /\ fnOut.op = "_generate_subsection_content"

\* The text the call read from the LLM.
ResponseText == IF Falsy(fnIn.message_content) THEN "{}" ELSE fnIn.message_content.v

\* The text parses to an object whose content is a text and whose title is
\* a text or null.
IsEnvelope(text) ==
    LET parsed == JsonLoads(text)
    IN  /\ ~parsed.raised
        /\ parsed.value.kind = "dict"
        /\ "content" \in DOMAIN parsed.value.fields
        /\ parsed.value.fields["content"].kind = "str"
        /\ Get(parsed.value, "title").kind \in {"str", "none"}

\* C23: whatever text the LLM returns, the call returns a (content, title)
\* pair and does not raise; a text that is no {title, content} envelope is
\* returned as the content, without a title.
C23_TolerantOfAnyResponse ==
    NarrativeCallDone =>
        /\ ~fnOut.result.raised
        /\ ~IsEnvelope(ResponseText)
               => fnOut.result.value
                      = [content |-> StripText(ResponseText), title |-> None]



(***************************************************************************)
(* workspace/sections.py and workspace/subsections.py: the positions of    *)
(* the sections of one template and of the subsections of its sections.    *)
(*                                                                         *)
(* The tables are kept in fnIn (sections: id -> position; subsections:     *)
(* id -> section and position), the return of the last call in fnOut.      *)
(* The schema (db.py) declares UNIQUE(template_id, position) and           *)
(* UNIQUE(section_id, position), checked row by row while a statement      *)
(* runs: an UPDATE that moves a row onto a position another row holds      *)
(* raises IntegrityError, the connection is closed without commit and the  *)
(* tables stay as they were.  The order in which an UPDATE visits its rows *)
(* is the database's choice.                                               *)
(***************************************************************************)
MaxSections == 2        \* sections of the template
MaxSubsections == 3     \* subsections of the template
MaxPosition == 2        \* positions a caller passes: 0..MaxPosition

\* The ids a section and a subsection can get.
SectionPool == 1..MaxSections
SubsectionPool == 1..MaxSubsections

NoPosition == -1        \* position=None

PositionArguments == {NoPosition} \cup 0..MaxPosition

\* The positions a row has in the model; a call that would move a row out
\* of them is not taken.
AllPositions == 0..(MaxPosition + 1)

WithinBounds(positions) == \A id \in DOMAIN positions : positions[id] \in AllPositions

\* The positions of the rows of one parent, as a function id -> position.
SectionPositions(store) == store.sections

SubsectionPositions(store, section_id) ==
    [id \in {u \in DOMAIN store.subsections : store.subsections[u].section_id = section_id} |->
        store.subsections[id].position]

\* UNIQUE(parent, position)
UniquePositions(positions) ==
    \A a, b \in DOMAIN positions : a # b => positions[a] # positions[b]

\* UPDATE ... SET position = position + delta WHERE position is in affected
Shifted(positions, affected, delta) ==
    [id \in DOMAIN positions |->
        IF positions[id] \in affected THEN positions[id] + delta ELSE positions[id]]

\* Some order of the rows makes a moved row meet a position that is taken.
MayCollide(positions, affected, delta) ==
    \E id \in DOMAIN positions :
        /\ positions[id] \in affected
        /\ \E other \in DOMAIN positions \ {id} : positions[other] = positions[id] + delta

\* The statement raises IntegrityError: it must when the rows it leaves are
\* not unique, it can when some order collides.
ShiftRaises(positions, affected, delta, collides) ==
    \/ ~UniquePositions(Shifted(positions, affected, delta))
    \/ collides /\ MayCollide(positions, affected, delta)

\* COALESCE(MAX(position), 0) + 1
NextPosition(positions) ==
    IF DOMAIN positions = {} THEN 1
    ELSE (CHOOSE p \in Range(SetToSeqAny({positions[id] : id \in DOMAIN positions})) :
              \A id \in DOMAIN positions : positions[id] <= p) + 1

\* The rows of one parent after a create with the given position argument.
PositionsAfterCreate(positions, id, position) ==
    LET shifted == IF position = NoPosition THEN positions
                   ELSE Shifted(positions, {p \in AllPositions : p >= position}, 1)
    IN  [k \in DOMAIN positions \cup {id} |->
            IF k = id THEN (IF position = NoPosition THEN NextPosition(positions) ELSE position)
            ELSE shifted[k]]


Done(op) == [op |-> op, error |-> "", raised |-> FALSE]
Failed(op, error) == [op |-> op, error |-> error, raised |-> FALSE]
IntegrityError(op) == [op |-> op, error |-> "UNIQUE constraint failed", raised |-> TRUE]

FreshId(pool, used) == CHOOSE id \in pool : id \notin used

\* create_section(template_id, title, position)
CreateSection(position, collides) ==
    /\ fnIn.op = "workspace"
    /\ Cardinality(DOMAIN fnIn.sections) < MaxSections
    /\ Cardinality(DOMAIN fnIn.subsections) < MaxSubsections
    /\ LET section_id == FreshId(SectionPool, DOMAIN fnIn.sections)
           subsection_id == FreshId(SubsectionPool, DOMAIN fnIn.subsections)
           affected == {p \in AllPositions : p >= position}
       IN  IF position # NoPosition /\ ShiftRaises(fnIn.sections, affected, 1, collides)
           THEN fnOut' = IntegrityError("create_section") /\ UNCHANGED fnIn
           ELSE /\ WithinBounds(PositionsAfterCreate(fnIn.sections, section_id, position))
                /\ fnIn' = [fnIn EXCEPT
                               !.sections = PositionsAfterCreate(fnIn.sections, section_id, position),
                               !.subsections =
                                   [u \in DOMAIN fnIn.subsections \cup {subsection_id} |->
                                       IF u = subsection_id
                                       THEN [section_id |-> section_id, position |-> 1]
                                       ELSE fnIn.subsections[u]]]
                /\ fnOut' = Done("create_section")
    /\ UNCHANGED <<graphVars, orchVars>>

\* The two statements of a move: the others shift, the row takes its place.
MoveRaises(positions, id, position, collides) ==
    LET current_position == positions[id]
        affected == IF position > current_position
                    THEN {p \in AllPositions : p > current_position /\ p <= position}
                    ELSE {p \in AllPositions : p >= position /\ p < current_position}
        delta == IF position > current_position THEN -1 ELSE 1
        shifted == Shifted(positions, affected, delta)
    IN  \/ ShiftRaises(positions, affected, delta, collides)
        \/ ~UniquePositions([shifted EXCEPT ![id] = position])

PositionsAfterMove(positions, id, position) ==
    LET current_position == positions[id]
        affected == IF position > current_position
                    THEN {p \in AllPositions : p > current_position /\ p <= position}
                    ELSE {p \in AllPositions : p >= position /\ p < current_position}
        delta == IF position > current_position THEN -1 ELSE 1
    IN  [Shifted(positions, affected, delta) EXCEPT ![id] = position]

\* update_section(section_id, title, position)
UpdateSection(section_id, position, collides) ==
    /\ fnIn.op = "workspace"
    /\ IF section_id \notin DOMAIN fnIn.sections
       THEN fnOut' = Failed("update_section", "Section not found") /\ UNCHANGED fnIn
       ELSE IF position = NoPosition \/ position = fnIn.sections[section_id]
       THEN fnOut' = Done("update_section") /\ UNCHANGED fnIn
       ELSE IF MoveRaises(fnIn.sections, section_id, position, collides)
       THEN fnOut' = IntegrityError("update_section") /\ UNCHANGED fnIn
       ELSE /\ fnIn' = [fnIn EXCEPT !.sections = PositionsAfterMove(@, section_id, position)]
            /\ fnOut' = Done("update_section")
    /\ UNCHANGED <<graphVars, orchVars>>

\* The rows left after a DELETE, the later ones one position up.
PositionsAfterDelete(positions, id) ==
    LET left == [k \in DOMAIN positions \ {id} |-> positions[k]]
    IN  Shifted(left, {p \in AllPositions : p > positions[id]}, -1)

\* delete_section(section_id): the subsections go with the section.
DeleteSection(section_id, collides) ==
    /\ fnIn.op = "workspace"
    /\ IF section_id \notin DOMAIN fnIn.sections
       THEN fnOut' = Failed("delete_section", "Section not found") /\ UNCHANGED fnIn
       ELSE LET left == [k \in DOMAIN fnIn.sections \ {section_id} |-> fnIn.sections[k]]
                affected == {p \in AllPositions : p > fnIn.sections[section_id]}
            IN  IF ShiftRaises(left, affected, -1, collides)
                THEN fnOut' = IntegrityError("delete_section") /\ UNCHANGED fnIn
                ELSE /\ fnIn' = [fnIn EXCEPT
                                    !.sections = PositionsAfterDelete(@, section_id),
                                    !.subsections =
                                        [u \in {x \in DOMAIN @ : @[x].section_id # section_id} |->
                                            @[u]]]
                     /\ fnOut' = Done("delete_section")
    /\ UNCHANGED <<graphVars, orchVars>>

\* The subsections table with the positions of one section replaced.
WithSubsectionPositions(subsections, section_id, positions) ==
    [u \in {x \in DOMAIN subsections : subsections[x].section_id # section_id}
           \cup DOMAIN positions |->
        IF u \in DOMAIN positions THEN [section_id |-> section_id, position |-> positions[u]]
        ELSE subsections[u]]

\* create_subsection(section_id, title, position)
CreateSubsection(section_id, position, collides) ==
    /\ fnIn.op = "workspace"
    /\ Cardinality(DOMAIN fnIn.subsections) < MaxSubsections
    /\ LET subsection_id == FreshId(SubsectionPool, DOMAIN fnIn.subsections)
           positions == SubsectionPositions(fnIn, section_id)
           affected == {p \in AllPositions : p >= position}
       IN  IF section_id \notin DOMAIN fnIn.sections
           THEN fnOut' = Failed("create_subsection", "Section not found") /\ UNCHANGED fnIn
           ELSE IF position # NoPosition /\ ShiftRaises(positions, affected, 1, collides)
           THEN fnOut' = IntegrityError("create_subsection") /\ UNCHANGED fnIn
           ELSE /\ WithinBounds(PositionsAfterCreate(positions, subsection_id, position))
                /\ fnIn' = [fnIn EXCEPT !.subsections =
                               WithSubsectionPositions(@, section_id,
                                   PositionsAfterCreate(positions, subsection_id, position))]
                /\ fnOut' = Done("create_subsection")
    /\ UNCHANGED <<graphVars, orchVars>>

\* reorder_subsection(subsection_id, new_position)
ReorderSubsection(subsection_id, new_position, collides) ==
    /\ fnIn.op = "workspace"
    /\ new_position # NoPosition
    /\ IF subsection_id \notin DOMAIN fnIn.subsections
       THEN fnOut' = Failed("reorder_subsection", "Subsection not found") /\ UNCHANGED fnIn
       ELSE LET section_id == fnIn.subsections[subsection_id].section_id
                positions == SubsectionPositions(fnIn, section_id)
                max_position == Cardinality(DOMAIN positions)
            IN  IF new_position = positions[subsection_id]
                THEN fnOut' = Done("reorder_subsection") /\ UNCHANGED fnIn
                ELSE IF new_position < 1 \/ new_position > max_position
                THEN fnOut' = Failed("reorder_subsection", "Invalid position")
                     /\ UNCHANGED fnIn
                ELSE IF MoveRaises(positions, subsection_id, new_position, collides)
                THEN fnOut' = IntegrityError("reorder_subsection") /\ UNCHANGED fnIn
                ELSE /\ fnIn' = [fnIn EXCEPT !.subsections =
                                    WithSubsectionPositions(@, section_id,
                                        PositionsAfterMove(positions, subsection_id,
                                                           new_position))]
                     /\ fnOut' = Done("reorder_subsection")
    /\ UNCHANGED <<graphVars, orchVars>>

\* delete_subsection(subsection_id): the last subsection of a section stays.
DeleteSubsectionRow(subsection_id, collides) ==
    /\ fnIn.op = "workspace"
    /\ IF subsection_id \notin DOMAIN fnIn.subsections
       THEN fnOut' = Failed("delete_subsection", "Subsection not found") /\ UNCHANGED fnIn
       ELSE LET section_id == fnIn.subsections[subsection_id].section_id
                positions == SubsectionPositions(fnIn, section_id)
                left == [k \in DOMAIN positions \ {subsection_id} |-> positions[k]]
                affected == {p \in AllPositions : p > positions[subsection_id]}
            IN  IF Cardinality(DOMAIN positions) <= 1
                THEN fnOut' = Failed("delete_subsection",
                                     "Cannot delete the last subsection in a section")
                     /\ UNCHANGED fnIn
                ELSE IF ShiftRaises(left, affected, -1, collides)
                THEN fnOut' = IntegrityError("delete_subsection") /\ UNCHANGED fnIn
                ELSE /\ fnIn' = [fnIn EXCEPT !.subsections =
                                    WithSubsectionPositions(@, section_id,
                                        PositionsAfterDelete(positions, subsection_id))]
                     /\ fnOut' = Done("delete_subsection")
    /\ UNCHANGED <<graphVars, orchVars>>

\* A new template has no sections.
LayoutInit ==
    /\ fnIn = [op |-> "workspace", sections |-> <<>>, subsections |-> <<>>]
    /\ fnOut = IdleFn
    /\ TopoDepsIdle
    /\ OrchestratorIdle

LayoutNext ==
    \/ \E position \in PositionArguments, collides \in BOOLEAN :
           CreateSection(position, collides)
    \/ \E section_id \in SectionPool, position \in PositionArguments, collides \in BOOLEAN :
           UpdateSection(section_id, position, collides)
    \/ \E section_id \in SectionPool, collides \in BOOLEAN :
           DeleteSection(section_id, collides)
    \/ \E section_id \in SectionPool, position \in PositionArguments, collides \in BOOLEAN :
           CreateSubsection(section_id, position, collides)
    \/ \E subsection_id \in SubsectionPool, new_position \in PositionArguments,
          collides \in BOOLEAN :
           ReorderSubsection(subsection_id, new_position, collides)
    \/ \E subsection_id \in SubsectionPool, collides \in BOOLEAN :
           DeleteSubsectionRow(subsection_id, collides)

SpecLayout == LayoutInit /\ [][LayoutNext]_vars

\* positions are exactly 1..n
Contiguous(positions) ==
    {positions[id] : id \in DOMAIN positions} = 1..Cardinality(DOMAIN positions)

\* C24: after any sequence of create, update, reorder and delete calls the
\* positions of the sections of the template, and of the subsections of
\* each section, are unique and are exactly 1..n.
C24_PositionsContiguous ==
    fnIn.op = "workspace" =>
        /\ UniquePositions(SectionPositions(fnIn))
        /\ Contiguous(SectionPositions(fnIn))
        /\ \A section_id \in DOMAIN fnIn.sections :
               /\ UniquePositions(SubsectionPositions(fnIn, section_id))
               /\ Contiguous(SubsectionPositions(fnIn, section_id))




(***************************************************************************)
(* Claims about the prior context of a generation step (Spec).             *)
(***************************************************************************)
\* The subsections the entries of a context are about.
ContextIds(context) == {context[n].subsection_id : n \in DOMAIN context}

\* The step of batch job j that waits for its generator, and the one of the
\* generate_section call in flight.
JobStepAwaits(j) == j \in DOMAIN tasks /\ tasks[j].pc = "await"

JobStepProgress(j) == jobs[j].subsections[tasks[j].i + 1]

SectionStepAwaits == sect.pc = "await"

SectionStepTarget == sect.targets[sect.index + 1]

\* C25: a step whose subsection has a non-empty expanded dependency list
\* gets as prior context entries of its declared dependencies only, never
\* the recency window over other generated subsections, also when no
\* declared dependency has generated or stored content.
C25_DependenciesReplaceWindow ==
    /\ \A j \in DOMAIN tasks :
           JobStepAwaits(j) /\ JobStepProgress(j).dependency_subsection_ids # <<>>
               => ContextIds(tasks[j].prior)
                      \subseteq Range(JobStepProgress(j).dependency_subsection_ids)
    /\ SectionStepAwaits /\ SectionStepTarget.dependency_subsection_ids # <<>>
           => ContextIds(sect.prior) \subseteq Range(SectionStepTarget.dependency_subsection_ids)


(***************************************************************************)
(* The recency window of _run_generation (SpecWindow): a batch whose       *)
(* subsections declare no dependencies, long enough for the window to cut. *)
(***************************************************************************)
MaxWindowSteps == 8

WindowInit ==
    /\ fnIn = [op |-> "_run_generation", pc |-> "loop", i |-> 0,
               generated_context |-> <<>>, prior |-> <<>>, outcomes |-> <<>>]
    /\ fnOut = IdleFn
    /\ TopoDepsIdle
    /\ OrchestratorIdle

\* The head of an iteration: the dependency context of an empty dependency
\* list, then the window over job.generated_context.
WindowStepStart ==
    /\ fnIn.op = "_run_generation"
    /\ fnIn.pc = "loop"
    /\ fnIn.i < MaxWindowSteps
    /\ fnIn' = [fnIn EXCEPT
                   !.pc = "await",
                   !.prior = PriorContext(
                       BuildDependencyContextFromIds(<<>>, EmptyMap, EmptyMap).context,
                       fnIn.generated_context)]
    /\ UNCHANGED fnOut
    /\ UNCHANGED <<graphVars, orchVars>>

\* The generator returns or raises; the context entry is appended after the
\* save, inside the try.
WindowStepFinish(outcome) ==
    /\ fnIn.op = "_run_generation"
    /\ fnIn.pc = "await"
    /\ LET id == fnIn.i + 1
           content == GeneratedContent("text", 1, id, 1)
           entry == BuildGenerationContextEntry(GeneratedSummary(content), id)
       IN  fnIn' = [fnIn EXCEPT
                       !.pc = "loop",
                       !.i = @ + 1,
                       !.outcomes = Append(@, outcome),
                       !.generated_context =
                           IF outcome = "ok" THEN Append(@, entry) ELSE @]
    /\ UNCHANGED fnOut
    /\ UNCHANGED <<graphVars, orchVars>>

WindowNext ==
    \/ WindowStepStart
    \/ \E outcome \in Outcomes : WindowStepFinish(outcome)

SpecWindow == WindowInit /\ [][WindowNext]_vars

\* The subsections the entries of a context are about, in the order listed.
ListedIds(context) == [n \in DOMAIN context |-> context[n].subsection_id]

\* The steps whose generation succeeded so far, in generation order.
SucceededSteps ==
    SelectSeq([k \in 1..Len(fnIn.outcomes) |-> k], LAMBDA k : fnIn.outcomes[k] = "ok")

LastOf(s, n) == SubSeq(s, (IF Len(s) > n THEN Len(s) - n ELSE 0) + 1, Len(s))

ReverseSeq(s) == [n \in 1..Len(s) |-> s[Len(s) + 1 - n]]

WindowAwaits == fnIn.op = "_run_generation" /\ fnIn.pc = "await"

AccumulatedInGenerationOrder == ListedIds(fnIn.generated_context) = SucceededSteps

\* C26 as stated: the prior context of a subsection without dependencies has
\* at most 5 entries, those of the most recently generated subsections,
\* listed most recent first; entries accumulate in generation order, for
\* successful generations only.
C26_WindowMostRecentFirst ==
    /\ AccumulatedInGenerationOrder
    /\ WindowAwaits =>
           /\ Len(fnIn.prior) <= MaxContextItems
           /\ ListedIds(fnIn.prior) = ReverseSeq(LastOf(SucceededSteps, MaxContextItems))

\* C26 amended: the same window, listed in generation order (the oldest entry
\* of the window first).
C26_WindowInGenerationOrder ==
    /\ AccumulatedInGenerationOrder
    /\ WindowAwaits =>
           /\ Len(fnIn.prior) <= MaxContextItems
           /\ ListedIds(fnIn.prior) = LastOf(SucceededSteps, MaxContextItems)

\* A step that waits with more than 5 entries accumulated and a failed step
\* behind it.
C26_Witness ==
    /\ WindowAwaits
    /\ Len(fnIn.generated_context) > MaxContextItems
    /\ Len(fnIn.prior) = MaxContextItems
    /\ "generation_error" \in Range(fnIn.outcomes)


(***************************************************************************)
(* Claims about the progress record of a batch job (Spec).                 *)
(***************************************************************************)
StatusRank(status) ==
    CASE status = "pending" -> 0
      [] status = "in_progress" -> 1
      [] status \in {"completed", "failed"} -> 2

\* A status after a status: the same one, or one further along
\* pending -> in_progress -> completed | failed.
MovedForward(before, after) ==
    \/ after = before
    \/ StatusRank(after) > StatusRank(before)

\* The shape of job j around current_index (0-based, as in the code).
JobShape(j) ==
    LET job == jobs[j]
        n == Len(job.subsections)
        at(k) == job.subsections[k + 1].status
    IN  /\ job.current_index >= 0
        /\ job.current_index < n
        /\ \A k \in 0..(n - 1) :
               /\ k < job.current_index => at(k) \in {"completed", "failed"}
               /\ k > job.current_index => at(k) = "pending"
               /\ at(k) = "in_progress" => k = job.current_index
        /\ job.status = "completed" =>
               \A k \in 0..(n - 1) : at(k) \in {"completed", "failed"}
        /\ job.status = "failed" =>
               \A k \in 0..(n - 1) : at(k) # "in_progress"

StatusesMoveForward ==
    \A j \in DOMAIN jobs :
        /\ j \in DOMAIN jobs'
        /\ MovedForward(jobs[j].status, jobs'[j].status)
        /\ DOMAIN jobs'[j].subsections = DOMAIN jobs[j].subsections
        /\ \A k \in DOMAIN jobs[j].subsections :
               MovedForward(StatusAt(j, k), jobs'[j].subsections[k].status)

\* C27: in every reachable state of a batch job the subsections before
\* current_index are completed or failed, the only subsection that can be
\* in_progress is the one at current_index, those after it are pending and
\* current_index < n; a completed job has only completed or failed
\* subsections, a failed job has none in_progress; job and subsection
\* statuses only move forward.
C27_JobProgressShape ==
    /\ [](\A j \in DOMAIN jobs : JobShape(j))
    /\ [][StatusesMoveForward]_vars

\* A job in its second step: the first subsection failed, the second is
\* in_progress, the third still pending.
C27_Witness ==
    \E j \in DOMAIN jobs :
        /\ jobs[j].status = "in_progress"
        /\ jobs[j].current_index = 1
        /\ SubsectionStatuses(jobs[j]) = <<"failed", "in_progress", "pending">>


(***************************************************************************)
(* Claims about what a completed step of a batch job has stored (Spec).    *)
(***************************************************************************)
\* The step stores a new version of subsection id, written by job j.
PersistsVersion(j, id) ==
    \E v \in versions' \ versions : v.subsection_id = id /\ v.by = j

\* Subsection k of job j becomes completed in this step.
BecomesCompleted(j, k) ==
    /\ StatusAt(j, k) # "completed"
    /\ jobs'[j].subsections[k].status = "completed"

\* C28: a step of a batch job marks a subsection completed, and adds its
\* summary to the accumulated context, only when it stores the generated
\* content as a new version of that subsection; a save that storage answers
\* with an error (the subsection was deleted meanwhile) leaves it failed.
C28_CompletedOnlyIfPersisted ==
    [][\A j \in DOMAIN jobs :
          /\ \A k \in DOMAIN jobs[j].subsections :
                 BecomesCompleted(j, k)
                     => PersistsVersion(j, jobs[j].subsections[k].subsection_id)
          /\ Len(jobs'[j].generated_context) > Len(jobs[j].generated_context)
                 => LET entries == jobs'[j].generated_context
                    IN  PersistsVersion(j, entries[Len(entries)].subsection_id)]_vars


(***************************************************************************)
(* SpecReadiness: get_generation_requirements and start_generation without *)
(* run inputs on one stored template, the saved preset empty.              *)
(***************************************************************************)
\* What the readiness check learns from one eligible subsection whose
\* configuration has the single parameter of the orchestrator model: a
\* failure other than a missing run input blocks; otherwise the bindings
\* left in the configuration (the stored one when resolution failed) are
\* required inputs.
CheckStoredSubsection(subsection, section_id) ==
    LET checked == ResolveDataSourceConfig(subsection.data_source_config, EmptyInputs)
        config == IF checked.resolved_config # NoConfig THEN checked.resolved_config
                  ELSE subsection.data_source_config
    IN  IF ~checked.valid /\ checked.error # "Missing run input"
        THEN [calls |-> <<>>, blocking |-> <<checked.error>>]
        ELSE IF config = NoConfig THEN [calls |-> <<>>, blocking |-> <<>>]
        ELSE [calls |-> IF config.input.kind = "var"
                        THEN <<RequiredInputCall(config.input.name, "integer", <<>>,
                                                 subsection.id, "input")>>
                        ELSE <<>>,
              blocking |-> <<>>]

ReadinessInputs == {Literal(1), Variable("k1"), VariableWithDefault("k1", 2)}

ReadinessDependencies ==
    {[section_ids |-> <<>>, subsection_ids |-> <<>>],
     [section_ids |-> <<>>, subsection_ids |-> <<1>>],
     [section_ids |-> <<>>, subsection_ids |-> <<2>>],
     [section_ids |-> <<>>, subsection_ids |-> <<3>>],
     [section_ids |-> <<11>>, subsection_ids |-> <<>>]}

ReadinessConfigs ==
    {NoConfig} \cup {Config(input, d.section_ids, d.subsection_ids) :
                        input \in ReadinessInputs, d \in ReadinessDependencies}

ReadinessInit ==
    /\ TopoDepsIdle
    /\ BindIdle
    /\ \E c1 \in ReadinessConfigs, c2 \in ReadinessConfigs, c3 \in ReadinessConfigs :
           subs = Template(c1, c2, c3)
    /\ versions = {[subsection_id |-> id, version_number |-> 1, by |-> 0] : id \in {1, 2}}
    /\ preset = EmptyInputs
    /\ jobs = <<>>
    /\ tasks = <<>>
    /\ sect = IdleSect
    /\ startResult = [calls |-> 0, kind |-> "none", validation_errors |-> <<>>,
                      job_id |-> 0, preset_inputs |-> EmptyInputs,
                      provided |-> EmptyInputs, preset_saved |-> FALSE]
    /\ sectResult = [calls |-> 0, kind |-> "none", section_id |-> 0,
                     validation_errors |-> <<>>,
                     run |-> 0, ordered_ids |-> <<>>, failed_at |-> 0,
                     generated_subsections |-> <<>>]
    /\ ops = 0
    /\ statusResult = IdleStatus

\* get_generation_requirements(template_id): a read.
GetStoredRequirements ==
    /\ fnOut = IdleFn
    /\ fnOut' = [op |-> "get_generation_requirements",
                 result |-> Requirements(GetSections, preset, <<"k1", "k2">>,
                                         CheckStoredSubsection)]
    /\ UNCHANGED fnIn
    /\ UNCHANGED <<graphVars, orchVars>>

\* start_generation(template_id, run_inputs=None), once.
StartWithoutRunInputs(preset_save_raises) ==
    StartGenerationBounded(1, 1, EmptyInputs, preset_save_raises)

ReadinessNext ==
    \/ GetStoredRequirements
    \/ \E raises \in BOOLEAN : StartWithoutRunInputs(raises)

SpecReadiness == ReadinessInit /\ [][ReadinessNext]_vars

ReportedReady == fnOut.op = "get_generation_requirements" /\ fnOut.result.ready

\* C29: when get_generation_requirements reports ready for a template whose
\* saved preset is empty, start_generation without run inputs on the same
\* template returns a job, whatever dependencies the subsections declare.
C29_ReadyMeansStartAccepted ==
    ReportedReady /\ startResult.calls > 0 => startResult.kind = "job"


(***************************************************************************)
(* Claims about dependencies that failed in the same batch job (Spec).     *)
(***************************************************************************)
\* The declared dependencies of a step of job j that are subsections of the
\* job and have failed.
FailedDependencies(j, progress) ==
    {D \in Range(progress.dependency_subsection_ids) :
        \E k \in DOMAIN jobs[j].subsections :
            /\ jobs[j].subsections[k].subsection_id = D
            /\ StatusAt(j, k) = "failed"}

EntriesAbout(context, id) == {n \in DOMAIN context : context[n].subsection_id = id}

\* The step of job j that waits for its generator is not held up by a failed
\* dependency D, and its context has for D the entry read from storage (not
\* content of this job), or no entry when storage had no content.
FailedDependencyFromStorage(j) ==
    LET S == JobStepProgress(j)
        cached == tasks[j].cached
        prior == tasks[j].prior
    IN  \A D \in FailedDependencies(j, S) :
            /\ S.status = "in_progress"
            /\ D \in DOMAIN cached
            /\ IF cached[D] = NoEntry
               THEN EntriesAbout(prior, D) = {}
               ELSE /\ Cardinality(EntriesAbout(prior, D)) = 1
                    /\ \A n \in EntriesAbout(prior, D) : prior[n] = cached[D]
                    /\ cached[D].content_summary.by # j

\* A step that finished after a dependency of it had failed has the status
\* its own outcome gives it.
DependentsKeepOwnOutcome(j) ==
    \A k \in 1..Len(tasks[j].outcomes) :
        FailedDependencies(j, jobs[j].subsections[k]) # {}
            => StatusAt(j, k) = IF tasks[j].outcomes[k] = "ok" THEN "completed"
                                ELSE "failed"

\* What a job has read from storage for a dependency stays what it uses.
ReadOncePerJob ==
    \A j \in DOMAIN tasks :
        \A D \in DOMAIN tasks[j].cached :
            /\ j \in DOMAIN tasks'
            /\ D \in DOMAIN tasks'[j].cached
            /\ tasks'[j].cached[D] = tasks[j].cached[D]

====
